---- MODULE Spec2Model ----
(***************************************************************************)
(* IntelliClinix backend: the NIfTI <-> COCO conversion of                 *)
(* backend/cvat/routes.py and the dataset case insertion that follows it.  *)
(*                                                                         *)
(* Strings are sequences of one-character strings, so that formatting,     *)
(* parsing, substring tests and filename patterns are computed.            *)
(* A pixel is <<x, y>>: x is the column (numpy axis 1), y the row (numpy   *)
(* axis 0), as in the points cv2.findContours returns.                     *)
(***************************************************************************)
EXTENDS Integers, Sequences, FiniteSets, TLC

\* ------------------------------------------------------------- bounds
\* Largest slice edge (slices are square, MaxDim-1 or MaxDim pixels wide).
MaxDim == 5
\* Largest number of slices of a volume built from the slice library.
MaxSlices == 3
\* Largest label value a voxel holds (one more than the largest table entry).
MaxLabel == 4
\* Largest category id of a downloaded COCO document.
MaxCat == 2
\* Largest number of annotations of a downloaded COCO document.
MaxAnns == 2

\* ------------------------------------------------------------ strings
Digits == <<"0", "1", "2", "3", "4", "5", "6", "7", "8", "9">>

IsDigit(c) == \E i \in 1..10 : Digits[i] = c

DigitVal(c) == (CHOOSE i \in 1..10 : Digits[i] = c) - 1

\* the number of decimal digits of n >= 0
NumDigits(n) == CHOOSE d \in 1..12 : n < 10 ^ d /\ (d = 1 \/ n >= 10 ^ (d - 1))

\* str(n) for n >= 0
Dec(n) == [i \in 1..NumDigits(n) |-> Digits[((n \div (10 ^ (NumDigits(n) - i))) % 10) + 1]]

\* str.zfill(w) / the format {n:0wd} applied to a digit string
ZFill(s, w) == IF Len(s) >= w THEN s ELSE [i \in 1..w |-> IF i <= w - Len(s) THEN "0" ELSE s[i - (w - Len(s))]]

RECURSIVE DigitsValue(_, _)
\* the number the first k characters of the digit string s spell
DigitsValue(s, k) == IF k = 0 THEN 0 ELSE 10 * DigitsValue(s, k - 1) + DigitVal(s[k])

\* int(s): the value, or -1 for the ValueError int() raises on a non-number
ParseInt(s) == IF s # <<>> /\ \A i \in 1..Len(s) : IsDigit(s[i]) THEN DigitsValue(s, Len(s)) ELSE -1

\* the largest index of c in s, 0 when absent (str.rfind + 1)
LastIndexOf(s, c) == IF \E i \in 1..Len(s) : s[i] = c THEN CHOOSE i \in 1..Len(s) : s[i] = c /\ \A j \in (i + 1)..Len(s) : s[j] # c ELSE 0

\* os.path.splitext(name)[0]: the name without its last extension
SplitExtRoot(s) == LET d == LastIndexOf(s, ".") IN IF d > 1 THEN SubSeq(s, 1, d - 1) ELSE s

\* s.split(c)[-1]
LastPart(s, c) == SubSeq(s, LastIndexOf(s, c) + 1, Len(s))

\* needle in hay (Python's substring test)
Contains(hay, needle) == \E i \in 0..(Len(hay) - Len(needle)) : SubSeq(hay, i + 1, i + Len(needle)) = needle

StartsWith(s, p) == Len(s) >= Len(p) /\ SubSeq(s, 1, Len(p)) = p

EndsWith(s, p) == Len(s) >= Len(p) /\ SubSeq(s, Len(s) - Len(p) + 1, Len(s)) = p

\* ------------------------------------------------- dataset label tables
BrainTumour == "Dataset001_BrainTumour"

Heart == "Dataset002_Heart"

DatasetTypes == {BrainTumour, Heart}

\* DATASET_CONFIGS[dataset_type]["labels"], as the (name, id) items in dict order
LabelItems(dataset_type) ==
    IF dataset_type = Heart
    THEN << <<"background", 0>>, <<"left_atrium", 1>> >>
    ELSE << <<"background", 0>>, <<"edema", 1>>, <<"non-enhancing tumor", 2>>, <<"enhancing tumour", 3>> >>

\* id_to_name = {v: k for k, v in labels.items()}: the ids it has a name for
KnownIds(dataset_type) == {LabelItems(dataset_type)[i][2] : i \in 1..Len(LabelItems(dataset_type))}

IdToName(dataset_type, id) == LET items == LabelItems(dataset_type) IN items[CHOOSE i \in 1..Len(items) : items[i][2] = id][1]

\* astype(np.uint8) of a label value
ToUint8(v) == v % 256

\* the uint8 value cv2.fillPoly stores for a colour (saturating)
SaturateU8(v) == IF v > 255 THEN 255 ELSE IF v < 0 THEN 0 ELSE v

\* the element of a one-element set; The({F(x) : x \in {e}}) is F at the value of e
The(S) == CHOOSE r \in S : TRUE

\* -------------------------------------------------------------- pixels
Pix(h, w) == (0..(w - 1)) \X (0..(h - 1))

\* raster order of cv2's scan: row by row, left to right
RasterBefore(p, q) == p[2] < q[2] \/ (p[2] = q[2] /\ p[1] < q[1])

RasterMin(S) == CHOOSE p \in S : \A q \in S : p = q \/ RasterBefore(p, q)

\* np.unique of a slice, background dropped: ascending label values
SortedSeq(S) == [i \in 1..Cardinality(S) |-> CHOOSE x \in S : Cardinality({y \in S : y < x}) = i - 1]

\* the pixels of slice sl that hold value v
PixelsOf(sl, v) == {p \in DOMAIN sl : sl[p] = v}

\* ------------------------------------------------------ get_bounding_box
MinOf(S) == CHOOSE x \in S : \A y \in S : x <= y

MaxOf(S) == CHOOSE x \in S : \A y \in S : x >= y

\* a bbox that swaps the column and the row extents
get_bounding_box_swapped(mask, label_id) ==
    LET P == PixelsOf(mask, label_id)
        xs == {p[1] : p \in P}
        ys == {p[2] : p \in P}
    IN  IF P = {} THEN <<>>
        ELSE <<MinOf(ys), MinOf(xs), MaxOf(ys) - MinOf(ys) + 1, MaxOf(xs) - MinOf(xs) + 1>>

\* [x_min, y_min, width, height] over the pixels equal to label_id; <<>> is None
get_bounding_box(mask, label_id) ==
    LET P == PixelsOf(mask, label_id)
        xs == {p[1] : p \in P}
        ys == {p[2] : p \in P}
    IN  IF P = {} THEN <<>>
        ELSE <<MinOf(xs), MinOf(ys), MaxOf(xs) - MinOf(xs) + 1, MaxOf(ys) - MinOf(ys) + 1>>

\* ------------------------------------------------------ cv2.findContours
\* the eight chain-code steps, counter-clockwise from east (y grows downwards)
Delta(s) ==
    CASE s = 0 -> <<1, 0>>   [] s = 1 -> <<1, -1>>
      [] s = 2 -> <<0, -1>>  [] s = 3 -> <<-1, -1>>
      [] s = 4 -> <<-1, 0>>  [] s = 5 -> <<-1, 1>>
      [] s = 6 -> <<0, 1>>   [] OTHER -> <<1, 1>>

StepTo(p, s) == <<p[1] + Delta(s)[1], p[2] + Delta(s)[2]>>

Neighbours8(p) == {StepTo(p, s) : s \in 0..7}

RECURSIVE Flood(_, _, _)
\* the 8-connected component of mask that holds the pixels of frontier
Flood(mask, seen, frontier) ==
    IF frontier = {} THEN seen
    ELSE The({ The({ Flood(mask, grown, next) : grown \in {seen \cup next} }) :
                 next \in {{q \in mask \ seen : \E p \in frontier : q \in Neighbours8(p)}} })

RECURSIVE Components(_)
\* the 8-connected components of a binary mask, in the order the scan meets them
Components(mask) ==
    IF mask = {} THEN <<>>
    ELSE The({ The({ <<c>> \o Components(rest) : rest \in {mask \ c} }) :
                 c \in {Flood(mask, {RasterMin(mask)}, {RasterMin(mask)})} })

RECURSIVE FirstCW(_, _, _)
\* from the start pixel, the clockwise search for a border neighbour (4: none)
FirstCW(mask, i0, s) == LET s1 == (s + 7) % 8 IN IF s1 = 4 \/ StepTo(i0, s1) \in mask THEN s1 ELSE FirstCW(mask, i0, s1)

RECURSIVE NextCCW(_, _, _)
NextCCW(mask, i3, s) == LET s1 == (s + 1) % 8 IN IF StepTo(i3, s1) \in mask THEN s1 ELSE NextCCW(mask, i3, s1)

RECURSIVE Follow(_, _, _, _, _, _, _)
\* border following; CHAIN_APPROX_SIMPLE keeps a point where the direction turns
Follow(mask, i0, i1, i3, s, prev_s, acc) ==
    The({ IF StepTo(i3, s2) = i0 /\ i3 = i1
          THEN (IF s2 # prev_s THEN Append(acc, i3) ELSE acc)
          ELSE The({ Follow(mask, i0, i1, i4, s4, s2, acc2) :
                       i4 \in {StepTo(i3, s2)},
                       s4 \in {(s2 + 4) % 8},
                       acc2 \in {IF s2 # prev_s THEN Append(acc, i3) ELSE acc} }) :
            s2 \in {NextCCW(mask, i3, s)} })

\* the outer border of the component starting at its first pixel in scan order
OuterContour(comp) ==
    The({ The({ IF s = 4 THEN <<i0>>
                ELSE The({ Follow(comp, i0, i1, i0, s, prev_s, <<>>) :
                             i1 \in {StepTo(i0, s)}, prev_s \in {(s + 4) % 8} }) :
                  s \in {FirstCW(comp, i0, 4)} }) :
            i0 \in {RasterMin(comp)} })

\* ---------------------------------------------------------- cv2.fillPoly
PolyNext(pts, i) == pts[(i % Len(pts)) + 1]

OnEdge(p, a, b) == /\ (b[1] - a[1]) * (p[2] - a[2]) = (b[2] - a[2]) * (p[1] - a[1])
                   /\ p[1] >= (IF a[1] < b[1] THEN a[1] ELSE b[1]) /\ p[1] <= (IF a[1] < b[1] THEN b[1] ELSE a[1])
                   /\ p[2] >= (IF a[2] < b[2] THEN a[2] ELSE b[2]) /\ p[2] <= (IF a[2] < b[2] THEN b[2] ELSE a[2])

\* the edge a-b crosses the ray from p towards +x
Crosses(p, a, b) ==
    /\ (a[2] > p[2]) # (b[2] > p[2])
    /\ IF b[2] > a[2]
       THEN (p[1] - a[1]) * (b[2] - a[2]) < (p[2] - a[2]) * (b[1] - a[1])
       ELSE (p[1] - a[1]) * (b[2] - a[2]) > (p[2] - a[2]) * (b[1] - a[1])

\* the pixels cv2.fillPoly paints for one polygon: its edges and its even-odd interior
Covered(p, pts) == \/ \E i \in 1..Len(pts) : OnEdge(p, pts[i], PolyNext(pts, i))
                   \/ Cardinality({i \in 1..Len(pts) : Crosses(p, pts[i], PolyNext(pts, i))}) % 2 = 1

\* pts = np.array(poly).reshape((-1, 2))
Reshape2(poly) == [i \in 1..(Len(poly) \div 2) |-> <<poly[2 * i - 1], poly[2 * i]>>]

\* contour[:, [0, 1]].flatten().tolist()
Flatten(pts) == [i \in 1..(2 * Len(pts)) |-> pts[(i + 1) \div 2][2 - (i % 2)]]

\* ------------------------------------------------------ get_segmentation
\* RETR_EXTERNAL: the outer border of every component no other component encloses
ExternalContours(mask) ==
    The({ The({ [k \in 1..Len(cont) |->
                   IF \A j \in 1..Len(cont) : j = k \/ ~Covered(cont[k][1], cont[j])
                   THEN cont[k] ELSE <<>>] :
                  cont \in {[k \in 1..Len(comps) |-> OuterContour(comps[k])]} }) :
            comps \in {Components(mask)} })

\* the contours of at least 3 points, each flattened to [x0, y0, x1, y1, ...]
ValidSegments(contours) ==
    SelectSeq([k \in 1..Len(contours) |-> Flatten(contours[k])],
              LAMBDA coords : Len(coords) % 2 = 0 /\ Len(coords) >= 6)

\* the polygons of the pixels equal to label_id; <<>> is None
get_segmentation(mask, label_id) ==
    The({ ValidSegments(contours) : contours \in {ExternalContours(PixelsOf(mask, label_id))} })

\* ------------------------------------- generate_coco_annotations_from_nifti
\* nib.load(path).get_fdata().astype(np.uint8)
LoadVolume(vol) ==
    [vol EXCEPT !.slices = [z \in 1..Len(vol.slices) |->
                               [p \in DOMAIN vol.slices[z] |-> ToUint8(vol.slices[z][p])]]]

\* sorted(label_values): every value of every slice, ascending
LabelValues(vol) == SortedSeq(UNION {{vol.slices[z][p] : p \in DOMAIN vol.slices[z]} : z \in 1..Len(vol.slices)})

\* the try block: names are appended until the first id the table does not hold
LabelNames(dataset_type, label_values) ==
    LET nz == SelectSeq(label_values, LAMBDA v : v # 0)
        k == CHOOSE n \in 0..Len(nz) :
                 /\ \A i \in 1..n : nz[i] \in KnownIds(dataset_type)
                 /\ (n = Len(nz) \/ nz[n + 1] \notin KnownIds(dataset_type))
    IN  [i \in 1..k |-> IdToName(dataset_type, nz[i])]

NonZero(label_values) == SelectSeq(label_values, LAMBDA v : v # 0)

\* categories that leave out the labels the table has no name for
CategoriesOfKnown(dataset_type, labels, label_values) ==
    LET known == SelectSeq(label_values, LAMBDA v : v # 0 /\ v \in KnownIds(dataset_type))
    IN  [ok |-> TRUE, list |-> [i \in 1..Len(known) |-> [id |-> known[i], name |-> IdToName(dataset_type, known[i])]]]

\* the categories comprehension: name = labels[label_id - 1]; not ok is the IndexError
Categories(dataset_type, labels, label_values) ==
    LET nz == NonZero(label_values)
    IN  [ok |-> \A i \in 1..Len(nz) : nz[i] - 1 < Len(labels),
         list |-> [i \in 1..Len(nz) |->
                      [id |-> nz[i], name |-> IF nz[i] - 1 < Len(labels) THEN labels[nz[i]] ELSE ""]]]

\* f"slice_{z:04d}.png"
SliceFileName(z) == <<"s", "l", "i", "c", "e", "_">> \o ZFill(Dec(z), 4) \o <<".", "p", "n", "g">>

ImageRecord(image_id, z, h, w) ==
    [id |-> image_id, file_name |-> SliceFileName(z), height |-> h, width |-> w]

\* an annotation counter that also counts the labels that got no annotation
NextAnnotationIdAlways(annotation_id, emitted) == annotation_id + 1

\* annotation_id += 1 sits inside "if segmentation and bbox"
NextAnnotationId(annotation_id, emitted) == IF emitted THEN annotation_id + 1 ELSE annotation_id

\* coco_data["annotations"].append({...})
AnnotationRecord(annotation_id, image_id, label_id, segmentation, bbox, mask) ==
    [id |-> annotation_id, image_id |-> image_id, category_id |-> label_id,
     segmentation |-> segmentation, bbox |-> bbox,
     area |-> Cardinality(PixelsOf(mask, label_id)), iscrowd |-> 0]

RECURSIVE SliceAnnotations(_, _, _, _)
\* the label loop of one slice, labels ascending: [anns, next_id]
SliceAnnotations(mask, image_id, labs, annotation_id) ==
    IF labs = <<>> THEN [anns |-> <<>>, next_id |-> annotation_id]
    ELSE The({ The({ The({ IF emitted
                           THEN [anns |-> <<AnnotationRecord(annotation_id, image_id, labs[1], segmentation, bbox, mask)>> \o rest.anns,
                                 next_id |-> rest.next_id]
                           ELSE rest :
                             rest \in {The({ SliceAnnotations(mask, image_id, tl, nid) :
                                               tl \in {Tail(labs)},
                                               nid \in {NextAnnotationId(annotation_id, emitted)} })} }) :
                       emitted \in {segmentation # <<>> /\ bbox # <<>>} }) :
                 segmentation \in {get_segmentation(mask, labs[1])},
                 bbox \in {get_bounding_box(mask, labs[1])} })

\* np.unique(label_mask) without background
SliceLabels(mask) == SortedSeq({mask[p] : p \in DOMAIN mask} \ {0})

\* an image list that skips the slices without labels
EmitImageOnlyIfLabelled(mask) == SliceLabels(mask) # <<>>

\* coco_data["images"].append(...) is unconditional
EmitImage(mask) == TRUE

RECURSIVE EncodeSlices(_, _, _, _)
\* the slice loop from slice z on: [images, annotations]
EncodeSlices(vol, z, image_id, annotation_id) ==
    IF z >= Len(vol.slices) THEN [images |-> <<>>, annotations |-> <<>>]
    ELSE The({ The({ The({ [images |-> (IF EmitImage(mask) THEN <<ImageRecord(image_id, z, vol.h, vol.w)>> ELSE <<>>) \o rest.images,
                            annotations |-> sa.anns \o rest.annotations] :
                             rest \in {The({ EncodeSlices(vol, z1, i1, a1) :
                                               z1 \in {z + 1}, i1 \in {image_id + 1}, a1 \in {sa.next_id} })} }) :
                       sa \in {The({ SliceAnnotations(mask, image_id, labs, annotation_id) :
                                       labs \in {SliceLabels(mask)} })} }) :
                 mask \in {vol.slices[z + 1]} })

\* the encoder: [ok, doc], or [ok |-> FALSE] with the exception it raises
generate_coco_annotations_from_nifti(raw, dataset_type) ==
    The({ The({ The({ IF ~cats.ok THEN [ok |-> FALSE, error |-> "IndexError"]
                      ELSE The({ [ok |-> TRUE,
                                  doc |-> [categories |-> cats.list, images |-> body.images, annotations |-> body.annotations]] :
                                   body \in {EncodeSlices(vol, 0, 0, 0)} }) :
                        cats \in {The({ Categories(dataset_type, labels, label_values) :
                                          labels \in {LabelNames(dataset_type, label_values)} })} }) :
                  label_values \in {LabelValues(vol)} }) :
            vol \in {LoadVolume(raw)} })

\* --------------------------------------- convert_coco_annotations_to_nii
\* a slice index read from the whole file name, extension included
extract_slice_index_with_ext(filename) == LET v == ParseInt(LastPart(filename, "_")) IN IF v < 0 THEN 0 ELSE v

\* int(splitext(filename)[0].split('_')[-1]), 0 on ValueError
extract_slice_index(filename) == LET v == ParseInt(LastPart(SplitExtRoot(filename), "_")) IN IF v < 0 THEN 0 ELSE v

\* sorted(images, key=extract_slice_index), stable: position i of the sorted list
\* holds the record with i - 1 records before it (smaller key, or equal key and earlier)
SortedImages(images) ==
    The({ [i \in 1..Len(images) |->
             images[CHOOSE k \in 1..Len(images) :
                        Cardinality({j \in 1..Len(images) : key[j] < key[k] \/ (key[j] = key[k] /\ j < k)}) = i - 1]] :
            key \in {[j \in 1..Len(images) |-> extract_slice_index(images[j].file_name)]} })

\* a fill that keeps what an earlier polygon wrote
PaintPixelFirstWins(old, color) == IF old # 0 THEN old ELSE SaturateU8(color)

\* cv2.fillPoly(slice_mask, [pts], color=category_id) at a covered pixel
PaintPixel(old, color) == SaturateU8(color)

RECURSIVE PaintPolys(_, _, _)
\* for poly in ann["segmentation"]: skip fewer than 3 points, else fill
PaintPolys(mask, polys, category_id) ==
    IF polys = <<>> THEN mask
    ELSE The({ PaintPolys(filled, tl, category_id) :
                 tl \in {Tail(polys)},
                 filled \in {IF Len(polys[1]) < 6 THEN mask
                             ELSE The({ [p \in DOMAIN mask |-> IF Covered(p, pts) THEN PaintPixel(mask[p], category_id) ELSE mask[p]] :
                                          pts \in {Reshape2(polys[1])} })} })

RECURSIVE PaintAnns(_, _)
PaintAnns(mask, anns) ==
    IF anns = <<>> THEN mask
    ELSE The({ PaintAnns(painted, tl) :
                 tl \in {Tail(anns)},
                 painted \in {The({ PaintPolys(mask, ann.segmentation, ann.category_id) : ann \in {anns[1]} })} })

\* annotations_by_image.get(img_id, []): the image's annotations in document order
AnnotationsOf(doc, img_id) == SelectSeq(doc.annotations, LAMBDA a : a.image_id = img_id)

\* a depth that counts the image records
NumSlicesByCount(images_info) == Len(images_info)

\* num_slices = max(slice_indices) + 1
NumSlices(images_info) ==
    MaxOf({extract_slice_index(images_info[i].file_name) : i \in 1..Len(images_info)}) + 1

\* the slice mask of one image record
SliceMask(doc, img, height, width) ==
    The({ PaintAnns(zeros, anns) :
            zeros \in {[p \in Pix(height, width) |-> 0]},
            anns \in {AnnotationsOf(doc, img.id)} })

\* the positions in the sorted image list whose slice index is idx
ImagesAt(images_info, idx) == {i \in 1..Len(images_info) : extract_slice_index(images_info[i].file_name) = idx}

\* the decoder: [ok, vol], or [ok |-> FALSE] with the exception it raises
convert_coco_annotations_to_nii(doc) ==
    IF doc.images = <<>> THEN [ok |-> FALSE, error |-> "ValueError"]
    ELSE The({ [ok |-> TRUE,
                vol |-> [h |-> images_info[1].height,
                         w |-> images_info[1].width,
                         slices |-> [z \in 1..NumSlices(images_info) |->
                                        IF ImagesAt(images_info, z - 1) = {}
                                        THEN [p \in Pix(images_info[1].height, images_info[1].width) |-> 0]
                                        ELSE SliceMask(doc, images_info[MaxOf(ImagesAt(images_info, z - 1))],
                                                       images_info[1].height, images_info[1].width)]]] :
                 images_info \in {SortedImages(doc.images)} })

\* ------------------------------------------------------- input volumes
EmptySlice(h, w) == [p \in Pix(h, w) |-> 0]

InRect(p, r) == r[1] <= p[1] /\ p[1] <= r[3] /\ r[2] <= p[2] /\ p[2] <= r[4]

\* rectangles <<x0, y0, x1, y1>>, corners inclusive
Rects(h, w) == {r \in (0..(w - 1)) \X (0..(h - 1)) \X (0..(w - 1)) \X (0..(h - 1)) : r[1] <= r[3] /\ r[2] <= r[4]}

PaintRect(sl, r, v) == [p \in DOMAIN sl |-> IF InRect(p, r) THEN v ELSE sl[p]]

Solid(h, w, r, v) == PaintRect(EmptySlice(h, w), r, v)

\* a rectangle of label v whose interior (the rectangle shrunk by one) holds inner
Frame(h, w, r, v, inner) == PaintRect(Solid(h, w, r, v), <<r[1] + 1, r[2] + 1, r[3] - 1, r[4] - 1>>, inner)

\* the 2x2 block in quadrant j (1..4) of the slice
Quadrant(j) == LET x0 == 2 * ((j - 1) % 2) y0 == 2 * ((j - 1) \div 2) IN <<x0, y0, x0 + 1, y0 + 1>>

RECURSIVE Blocks(_, _, _)
\* labels 1..k, label j as the block in quadrant j
Blocks(h, w, k) == IF k = 0 THEN EmptySlice(h, w) ELSE PaintRect(Blocks(h, w, k - 1), Quadrant(k), k)

\* a label with the number of lower labels the second slice holds
ShapeLabels == {vk \in (1..MaxLabel) \X (0..(MaxLabel - 1)) : vk[2] = 0 \/ vk[2] = vk[1] - 1}

\* rectangles that have an interior
FrameRects(h, w) == {r \in Rects(h, w) : r[3] - r[1] >= 2 /\ r[4] - r[2] >= 2}

\* one rectangle on the first slice; the second slice holds lower labels, or nothing
SolidVolumes(n) == {[h |-> n, w |-> n, slices |-> <<Solid(n, n, r, vk[1]), Blocks(n, n, vk[2])>>] : r \in Rects(n, n), vk \in ShapeLabels}

\* one frame on the first slice, its interior background or the other label
FrameVolumes(n) ==
    {[h |-> n, w |-> n, slices |-> <<Frame(n, n, r, vi[1], vi[2]), EmptySlice(n, n)>>] :
        r \in FrameRects(n, n), vi \in {<<1, 0>>, <<1, 2>>, <<2, 0>>, <<2, 1>>}}

ShapeVolumes == SolidVolumes(MaxDim - 1) \cup FrameVolumes(MaxDim)

\* the slices that volumes of several slices are built from
SliceLib(n) ==
    { EmptySlice(n, n),
      Blocks(n, n, 1),
      Blocks(n, n, 2),
      PaintRect(Blocks(n, n, 1), Quadrant(3), 3),
      PaintRect(Solid(n, n, <<0, 0, 0, 0>>, 1), Quadrant(2), 2),
      Solid(n, n, Quadrant(4), MaxLabel) }

MultiVolumes == LET n == MaxDim - 1 IN UNION {{[h |-> n, w |-> n, slices |-> s] : s \in [1..len -> SliceLib(n)]} : len \in 1..MaxSlices}

NoVolume == [h |-> 0, w |-> 0, slices |-> <<>>]

NoDoc == [categories |-> <<>>, images |-> <<>>, annotations |-> <<>>]

\* ------------------------------------------- documents exported by CVAT
RectPoly(r) == <<r[1], r[2], r[3], r[2], r[3], r[4], r[1], r[4]>>

\* polygon lists: two overlapping rectangles, and a polygon of 2 points
SegmentationLib == {<<<<1, 1, 2, 2>>, RectPoly(<<0, 0, 2, 2>>)>>, <<RectPoly(<<1, 1, 3, 3>>)>>}

AnnLib == [image_id : {0, 1}, category_id : 0..MaxCat, segmentation : SegmentationLib]

\* documents with an image record for slice 0 and for slice 1
PlainDocs ==
    LET n == MaxDim - 1
    IN  {[categories |-> <<>>,
          images |-> <<ImageRecord(0, 0, n, n), ImageRecord(1, 1, n, n)>>,
          annotations |-> anns] :
            anns \in UNION {[1..len -> AnnLib] : len \in 0..MaxAnns}}

\* an image record whose file name holds no slice number
UnnumberedImage(image_id, h, w) ==
    [id |-> image_id, file_name |-> <<"f", "r", "a", "m", "e", ".", "p", "n", "g">>, height |-> h, width |-> w]

\* image lists without records, with a gap and out of slice order, and with a
\* file name that holds no number
OddImageLists ==
    LET n == MaxDim - 1
    IN  { <<>>,
          <<ImageRecord(0, 2, n, n), ImageRecord(1, 0, n, n)>>,
          <<ImageRecord(0, 1, n, n), UnnumberedImage(1, n, n)>> }

OddDocs ==
    {[categories |-> <<>>, images |-> imgs, annotations |-> anns] :
        imgs \in OddImageLists, anns \in UNION {[1..len -> AnnLib] : len \in 0..1}}

DownloadedDocs == PlainDocs \cup OddDocs

\* a volume an earlier import left at output_nii_path
StaleOutput == [h |-> MaxDim - 1, w |-> MaxDim - 1, slices |-> <<Blocks(MaxDim - 1, MaxDim - 1, 1)>>]

\* ------------------------ insert_corrected_annotation_with_multichannel
La == <<"l", "a", "_">>

Brats == <<"B", "R", "A", "T", "S">>

BratsLower == <<"b", "r", "a", "t", "s", "_">>

NiiGz == <<".", "n", "i", "i", ".", "g", "z">>

ImagesTrDir == <<".", "/", "i", "m", "a", "g", "e", "s", "T", "r", "/">>

LabelsTrDir == <<".", "/", "l", "a", "b", "e", "l", "s", "T", "r", "/">>

\* num_channels of the brain dataset
BratsChannels == 4

\* the key "file_ending" is not in dataset.json
NoEnding == <<>>

\* dataset.get("file_ending", ".nii.gz")
FileEnding(manifest) == IF manifest.file_ending = NoEnding THEN NiiGz ELSE manifest.file_ending

\* the digits \d+ matches at position i of s (greedy), <<>> when s[i] is no digit
DigitRun(s, i) ==
    LET n == CHOOSE k \in 0..Len(s) :
                 /\ \A j \in i..(i + k - 1) : j <= Len(s) /\ IsDigit(s[j])
                 /\ (i + k > Len(s) \/ ~IsDigit(s[i + k]))
    IN  SubSeq(s, i, i + n - 1)

HasAt(s, i, lit) == i + Len(lit) - 1 <= Len(s) /\ SubSeq(s, i, i + Len(lit) - 1) = lit

\* re.search(r'la_(\d+)', s).group(1), <<>> when there is no match
SearchLa(s) ==
    LET at == {k \in 1..Len(s) : HasAt(s, k, La) /\ DigitRun(s, k + 3) # <<>>}
    IN  IF at = {} THEN <<>> ELSE DigitRun(s, MinOf(at) + 3)

\* where the digits start when BRATS[_-]?(\d+) matches at i, 0 when it does not
BratsDigitsAt(s, i) ==
    IF ~HasAt(s, i, Brats) THEN 0
    ELSE IF i + 5 <= Len(s) /\ s[i + 5] \in {"_", "-"}
         THEN (IF DigitRun(s, i + 6) # <<>> THEN i + 6 ELSE 0)
         ELSE (IF DigitRun(s, i + 5) # <<>> THEN i + 5 ELSE 0)

\* re.search(r'BRATS[_-]?(\d+)', s).group(1), <<>> when there is no match
SearchBrats(s) ==
    LET at == {k \in 1..Len(s) : BratsDigitsAt(s, k) # 0}
    IN  IF at = {} THEN <<>> ELSE DigitRun(s, BratsDigitsAt(s, MinOf(at)))

\* re.search(r'(\d+)', s).group(1), <<>> when there is no match
SearchDigits(s) ==
    LET at == {k \in 1..Len(s) : IsDigit(s[k])}
    IN  IF at = {} THEN <<>> ELSE DigitRun(s, MinOf(at))

\* is_heart_dataset = 'la_' in nifti_id
IsHeart(nifti_id) == Contains(nifti_id, La)

\* case_number, <<>> where the code raises ValueError
CaseNumber(nifti_id) ==
    IF IsHeart(nifti_id) THEN SearchLa(nifti_id)
    ELSE IF SearchBrats(nifti_id) # <<>> THEN SearchBrats(nifti_id)
    ELSE SearchDigits(nifti_id)

\* la_{case_number.zfill(3)} or BRATS_{case_number.zfill(3)}
BaseCaseId(nifti_id) ==
    IF IsHeart(nifti_id) THEN La \o ZFill(CaseNumber(nifti_id), 3)
    ELSE Brats \o <<"_">> \o ZFill(CaseNumber(nifti_id), 3)

\* every dataset is given the channels of the brain dataset
NumChannelsOfBrats(nifti_id) == BratsChannels

NumChannels(nifti_id) == IF IsHeart(nifti_id) THEN 1 ELSE BratsChannels

\* _{ch:04d}{file_ending}
ChannelSuffix(ch, ending) == <<"_">> \o ZFill(Dec(ch), 4) \o ending

HexChars == {"a", "b", "c", "d", "e", "f", "0", "1", "2", "3", "4", "5", "6", "7", "8", "9", "-"}

\* the characters [a-f0-9-]+ matches at position i of s (greedy)
HexRun(s, i) ==
    LET n == CHOOSE k \in 0..Len(s) :
                 /\ \A j \in i..(i + k - 1) : j <= Len(s) /\ s[j] \in HexChars
                 /\ (i + k > Len(s) \/ s[i + k] \notin HexChars)
    IN  SubSeq(s, i, i + n - 1)

\* uuid_pattern.match(f).group(1), <<>> when f does not match:
\* brats_([a-f0-9-]+)_0000<file_ending> at the start of f
UuidOf(f, ending) ==
    IF /\ HasAt(f, 1, BratsLower)
       /\ HexRun(f, 7) # <<>>
       /\ HasAt(f, 7 + Len(HexRun(f, 7)), ChannelSuffix(0, ending))
    THEN HexRun(f, 7) ELSE <<>>

UuidMatches(all_files, ending) == {UuidOf(f, ending) : f \in all_files} \ {<<>>}

\* the uuids whose every channel file is in the listing
CompleteUuids(all_files, ending, num_channels) ==
    {u \in UuidMatches(all_files, ending) :
        \A ch \in 0..(num_channels - 1) : (BratsLower \o u \o ChannelSuffix(ch, ending)) \in all_files}

Pattern(glob, text) == [glob |-> glob, text |-> text]

\* possible_filenames of channel ch; a glob pattern is "*" followed by text
PossibleFilenames(nifti_id, ch, ending) ==
    LET n == CaseNumber(nifti_id)
        tail == ChannelSuffix(ch, ending)
    IN  IF IsHeart(nifti_id)
        THEN << Pattern(FALSE, n \o ChannelSuffix(0, ending)),
                Pattern(FALSE, La \o n \o ChannelSuffix(0, ending)),
                Pattern(TRUE, <<"_">> \o n \o ChannelSuffix(0, ending)),
                Pattern(TRUE, <<"_">> \o La \o n \o ChannelSuffix(0, ending)),
                Pattern(TRUE, <<"_">> \o BaseCaseId(nifti_id) \o ChannelSuffix(0, ending)) >>
        ELSE << Pattern(TRUE, <<"_">> \o Brats \o <<"_">> \o n \o tail),
                Pattern(FALSE, Brats \o <<"_">> \o n \o tail),
                Pattern(FALSE, BratsLower \o n \o tail),
                Pattern(FALSE, n \o tail),
                Pattern(TRUE, <<"_">> \o n \o tail),
                Pattern(FALSE, Brats \o n \o tail) >>

\* glob.glob(pattern) or os.path.exists(pattern) over the raw folder
MatchingFiles(raw, pattern) ==
    IF pattern.glob THEN {f \in raw : EndsWith(f, pattern.text) /\ f[1] # "."}
    ELSE {f \in raw : f = pattern.text}

\* the matches of the first pattern that has any: found_file is one of them
FoundFiles(raw, patterns) ==
    LET hit == {i \in 1..Len(patterns) : MatchingFiles(raw, patterns[i]) # {}}
    IN  IF hit = {} THEN {} ELSE MatchingFiles(raw, patterns[MinOf(hit)])

\* shutil.copy into a folder: the file name now holds the given content
CopyInto(folder, name, content) == [f \in DOMAIN folder \cup {name} |-> IF f = name THEN content ELSE folder[f]]

\* the copies of channels 0..upto-1, channel ch from the raw file src[ch]
CopyChannels(folder, base_case_id, ending, src, upto) ==
    [f \in DOMAIN folder \cup {base_case_id \o ChannelSuffix(ch, ending) : ch \in 0..(upto - 1)} |->
        IF \E ch \in 0..(upto - 1) : f = base_case_id \o ChannelSuffix(ch, ending)
        THEN src[CHOOSE ch \in 0..(upto - 1) : f = base_case_id \o ChannelSuffix(ch, ending)]
        ELSE folder[f]]

\* an entry whose image path leaves the channel out
NewTrainingEntryOfCase(base_case_id, ending) ==
    [image |-> ImagesTrDir \o base_case_id \o ending,
     label |-> LabelsTrDir \o base_case_id \o ending]

NewTrainingEntry(base_case_id, ending) ==
    [image |-> ImagesTrDir \o base_case_id \o ChannelSuffix(0, ending),
     label |-> LabelsTrDir \o base_case_id \o ending]

\* a manifest update that appends without removing the entries of the case
UpdateManifestAppendOnly(manifest, base_case_id, ending) ==
    [manifest EXCEPT !.has_training = TRUE,
                     !.training = Append(manifest.training, NewTrainingEntry(base_case_id, ending)),
                     !.numTraining = Len(manifest.training) + 1]

\* drop the entries whose image path contains base_case_id, append the new
\* entry, numTraining = len(training)
UpdateManifest(manifest, base_case_id, ending) ==
    LET kept == SelectSeq(manifest.training, LAMBDA entry : ~Contains(entry.image, base_case_id))
    IN  [manifest EXCEPT !.has_training = TRUE,
                         !.training = Append(kept, NewTrainingEntry(base_case_id, ending)),
                         !.numTraining = Len(kept) + 1]

\* ---------------------------------------------------------------- state
VARIABLES
  pc,            \* where the conversion stands
  volume,        \* the label volume given to the encoder (NoVolume: none)
  dataset_type,  \* the table the encoder selects from the file path
  coco,          \* the COCO document (encoded, or downloaded from CVAT)
  decoded,       \* the volume the decoder wrote (NoVolume: none)
  exists,        \* which of imagesTr, labelsTr, dataset.json exist
  imagesTr,      \* dataset_folder/imagesTr: file name -> content
  labelsTr,      \* dataset_folder/labelsTr: file name -> content
  dataset,       \* the content of dataset.json
  raw_images_src,\* the file names of the raw image folder
  calls,         \* the insertion calls made so far and how each ended
  request,       \* the JSON body of the request being handled
  response,      \* the response returned, NoResponse while the handler runs
  results,       \* send_to_dataset: the results list
  task_index,    \* send_to_dataset: how many task ids the loop has consumed
  pending,       \* send_to_dataset: the task about to be inserted
  exports,       \* the task ids whose annotation export CVAT has started
  persistent_dir,\* the folder cvat_annotations and the files in it
  niftis_exists, \* whether the folder temp_uploads/niftis exists
  cvat_accepts,  \* whether CVAT accepts the credentials of the request
  corrected_tasks,\* the task records of the folder corrected_tasks, by task id
  export_rq,     \* the export request CVAT runs and the answers its status endpoint gave
  uploaded_tasks,\* upload_tasks: the list of tasks uploaded
  cvat_tasks,    \* the tasks created in CVAT, by task id
  fs,            \* the paths that exist under temp_uploads, temp_results and /tmp
  requests,      \* the requests in flight, by request id
  responses,     \* the response each of them got, NoResponse until then
  stage,         \* where the handler of each of them stands
  nifti_paths,   \* process_upload: result['nifti_paths'] of each upload
  zip_file,      \* temp_uploads/<job_id>.zip
  temp_extract_dir, \* temp_uploads/temp_extract_<job_id>
  inference_dir, \* temp_uploads/inference_temp_<job_id>
  niftis_dir,    \* temp_uploads/niftis
  subprocesses,  \* the commands started with subprocess.run
  cvat_logins,   \* the login calls made to CVAT, in order, with CVAT's answer
  users,         \* the documents of the users collection, in insertion order
  session        \* the Flask session of each client

cocoVars == <<pc, volume, dataset_type, coco, decoded>>

datasetVars == <<exists, imagesTr, labelsTr, dataset, raw_images_src, calls>>

sendVars == <<request, response, results, task_index, pending, exports, persistent_dir, niftis_exists, cvat_accepts, corrected_tasks,
              export_rq>>

exportVars == <<uploaded_tasks, cvat_tasks, fs>>

jobVars == <<requests, responses, stage, nifti_paths, zip_file, temp_extract_dir, inference_dir, niftis_dir,
             subprocesses, cvat_logins, users, session>>

serverVars == <<sendVars, exportVars, jobVars>>

vars == <<pc, volume, dataset_type, coco, decoded, exists, imagesTr, labelsTr, dataset, raw_images_src, calls,
          request, response, results, task_index, pending, exports, persistent_dir, niftis_exists, cvat_accepts,
          corrected_tasks, export_rq, uploaded_tasks, cvat_tasks, fs,
          requests, responses, stage, nifti_paths, zip_file, temp_extract_dir, inference_dir, niftis_dir,
          subprocesses, cvat_logins, users, session>>

NoManifest == [file_ending |-> NoEnding, has_training |-> FALSE, training |-> <<>>, numTraining |-> 0]

\* no dataset folder takes part in the conversion
NoDataset ==
    /\ exists = {}
    /\ imagesTr = <<>>
    /\ labelsTr = <<>>
    /\ dataset = NoManifest
    /\ raw_images_src = {}
    /\ calls = <<>>

\* a falsy JSON field: absent, null or the empty string
Missing == <<>>

NoRequest == [data |-> FALSE]

NoResponse == [code |-> 0]

NoPending == [task_id |-> Missing, nifti_id |-> Missing]

NoFolder == [exists |-> FALSE, files |-> {}]

\* the request behind GET /requests/<rq_id>: its status, what a finished
\* request offers for download, and the answers given to the status queries
ExportRq(status, result, answers) == [status |-> status, result |-> result, answers |-> answers]

\* no export was asked for
NoExportRq == ExportRq("none", "none", <<>>)

\* no request to send_to_dataset is being handled
NoSend ==
    /\ request = NoRequest
    /\ response = NoResponse
    /\ results = <<>>
    /\ task_index = 0
    /\ pending = NoPending
    /\ exports = {}
    /\ persistent_dir = NoFolder /\ export_rq = NoExportRq
    /\ niftis_exists = FALSE
    /\ cvat_accepts = FALSE
    /\ corrected_tasks = <<>>

\* no request to upload_tasks is being handled
NoExport ==
    /\ uploaded_tasks = <<>>
    /\ cvat_tasks = <<>>
    /\ fs = {}

NoFile == [present |-> FALSE, owner |-> 0, files |-> {}]

NoDir == [exists |-> FALSE, files |-> <<>>]

\* a session without keys
NoSession == [username |-> Missing]

\* no upload, run, train-nnunet or login request is in flight
NoJobs ==
    /\ requests = <<>>
    /\ responses = <<>>
    /\ stage = <<>>
    /\ nifti_paths = <<>>
    /\ zip_file = NoFile
    /\ temp_extract_dir = NoDir
    /\ inference_dir = NoDir
    /\ niftis_dir = NoDir
    /\ subprocesses = <<>>
    /\ cvat_logins = <<>>
    /\ users = <<>>
    /\ session = <<>>

NoServer == NoSend /\ NoExport /\ NoJobs

\* a result volume to export, or an annotation file downloaded for import
InitCoco == /\ NoDataset
            /\ NoServer
            /\ \/ /\ pc = "start"
                  /\ coco = NoDoc
                  /\ decoded = NoVolume
                  /\ \/ volume \in ShapeVolumes /\ dataset_type = BrainTumour
                     \/ volume \in MultiVolumes /\ dataset_type \in DatasetTypes
               \/ /\ pc = "downloaded"
                  /\ volume = NoVolume
                  /\ dataset_type = BrainTumour
                  /\ coco \in DownloadedDocs
                  /\ decoded \in {NoVolume, StaleOutput}

\* upload_tasks: coco_data = generate_coco_annotations_from_nifti(result_nifti)
Encode == /\ pc = "start"
          /\ \E r \in {generate_coco_annotations_from_nifti(volume, dataset_type)} :
               /\ pc' = IF r.ok THEN "encoded" ELSE "encode_failed"
               /\ coco' = IF r.ok THEN r.doc ELSE NoDoc
          /\ UNCHANGED <<volume, dataset_type, decoded>>
          /\ UNCHANGED datasetVars
          /\ UNCHANGED serverVars

\* an output file that is emptied before the document is validated
WriteOutputTruncating(old, r) == IF r.ok THEN r.vol ELSE NoVolume

\* nib.save(nii_img, output_nii_path) is reached only when nothing was raised
WriteOutput(old, r) == IF r.ok THEN r.vol ELSE old

\* send_to_dataset: convert_coco_annotations_to_nii(coco_json_path, output_nii_path)
Decode == /\ pc \in {"encoded", "downloaded"}
          /\ \E r \in {convert_coco_annotations_to_nii(coco)} :
               /\ pc' = IF r.ok THEN "decoded" ELSE "decode_failed"
               /\ decoded' = WriteOutput(decoded, r)
          /\ UNCHANGED <<volume, dataset_type, coco>>
          /\ UNCHANGED datasetVars
          /\ UNCHANGED serverVars

NextCoco == Encode \/ Decode

SpecCoco == InitCoco /\ [][NextCoco]_vars

\* ------------------------------------------------------- dataset folder
\* Most insertion calls of one run.
MaxCalls == 2

Old == <<"o", "l", "d">>

\* corrected_nii_file: the decoded volume written by send_to_dataset
CorrectedFile == <<"c", "o", "r", "r", "e", "c", "t", "e", "d">> \o NiiGz

Paths == {"imagesTr", "labelsTr", "dataset.json"}

Id_la_3 == La \o <<"3">>

Id_BRATS_100 == Brats \o <<"_", "1", "0", "0">>

Id_BRATS_1000 == Brats \o <<"_", "1", "0", "0", "0">>

Id_case7 == <<"c", "a", "s", "e", "7">>

Id_la_x == La \o <<"x">>

\* the result of upload c7: f"{job_id}_{file}" with the file nnUNet writes for case brats_c7
Id_c7 == <<"c", "7", "_">> \o BratsLower \o <<"c", "7">>

\* the nifti_id values send_to_dataset passes
NiftiIds == {Id_la_3, Id_BRATS_100, Id_BRATS_1000, Id_case7, Id_la_x, Id_c7}

\* the channel files <prefix>_0000 .. <prefix>_<n-1> with the default ending
ChannelFiles(prefix, n) == {prefix \o ChannelSuffix(ch, NiiGz) : ch \in 0..(n - 1)}

Uuid_ab == BratsLower \o <<"a", "b">>

Uuid_cd == BratsLower \o <<"c", "d">>

Uuid_c7 == BratsLower \o <<"c", "7">>

\* the raw image folders of a run
RawLib ==
    { {},
      ChannelFiles(Id_la_3, 1),
      ChannelFiles(Uuid_ab, BratsChannels),
      ChannelFiles(Uuid_ab, 2) \cup ChannelFiles(Id_BRATS_100, BratsChannels),
      ChannelFiles(Uuid_ab, BratsChannels) \cup ChannelFiles(Uuid_cd, BratsChannels),
      ChannelFiles(Uuid_ab, BratsChannels) \cup ChannelFiles(Uuid_c7, BratsChannels),
      ChannelFiles(Id_BRATS_100, BratsChannels) \cup ChannelFiles(Id_la_3, 1),
      ChannelFiles(Id_BRATS_100, 2),
      ChannelFiles(<<"a", "_", "1", "0", "0">>, BratsChannels) \cup ChannelFiles(<<"b", "_", "1", "0", "0">>, 1) }

\* the base_case_id of heart case 3
Case_la_003 == La \o <<"0", "0", "3">>

EntryOf(base_case_id) == NewTrainingEntry(base_case_id, NiiGz)

\* the dataset.json files of a run
ManifestLib ==
    { NoManifest,
      [file_ending |-> NiiGz, has_training |-> TRUE, training |-> <<>>, numTraining |-> 0],
      [file_ending |-> NiiGz, has_training |-> TRUE, numTraining |-> 1,
       training |-> <<EntryOf(Id_BRATS_100)>>],
      [file_ending |-> NiiGz, has_training |-> TRUE, numTraining |-> 3,
       training |-> <<EntryOf(Id_BRATS_1000), EntryOf(Id_BRATS_100), EntryOf(Case_la_003)>>],
      [file_ending |-> NoEnding, has_training |-> TRUE, numTraining |-> 2,
       training |-> <<EntryOf(Case_la_003), EntryOf(Case_la_003)>>] }

\* a folder holding earlier files under the given names
OldFiles(names) == [f \in names |-> Old]

ImagesLib == {OldFiles({}), OldFiles(ChannelFiles(Id_BRATS_100, BratsChannels))}

LabelsLib == {OldFiles({}), OldFiles({Id_BRATS_100 \o NiiGz, Case_la_003 \o NiiGz})}

NoCoco ==
    /\ pc = "idle"
    /\ volume = NoVolume
    /\ dataset_type = BrainTumour
    /\ coco = NoDoc
    /\ decoded = NoVolume

InitDataset ==
    /\ NoCoco
    /\ NoServer
    /\ calls = <<>>
    /\ raw_images_src \in RawLib
    /\ exists \in SUBSET Paths
    /\ imagesTr \in (IF exists = Paths THEN ImagesLib ELSE {OldFiles({})})
    /\ labelsTr \in (IF exists = Paths THEN LabelsLib ELSE {OldFiles({})})
    /\ dataset \in (IF exists = Paths THEN ManifestLib ELSE {NoManifest})

\* how a call ended: what it raised, or the base_case_id it returned
Ended(nifti_id, result, base_case_id) == [nifti_id |-> nifti_id, result |-> result, base_case_id |-> base_case_id]

\* the handler leaves without having written anything
RaiseEarly(nifti_id, error) ==
    /\ calls' = Append(calls, Ended(nifti_id, error, <<>>))
    /\ UNCHANGED <<exists, imagesTr, labelsTr, dataset, raw_images_src>>

\* found_files: channel ch is brats_{uuid}_{ch:04d}{file_ending}
UuidChannelFiles(uuid, ending) == [ch \in 0..(BratsChannels - 1) |-> BratsLower \o uuid \o ChannelSuffix(ch, ending)]

\* lines 655-690: the channels of a uuid found in the listing
CopyUuidChannels(nifti_id, base, ending) ==
    /\ UuidMatches(raw_images_src, ending) # {}
    /\ \/ /\ CompleteUuids(raw_images_src, ending, BratsChannels) = {}
          /\ calls' = Append(calls, Ended(nifti_id, "FileNotFoundError", <<>>))
          /\ UNCHANGED <<imagesTr, dataset>>
       \/ \E uuid \in CompleteUuids(raw_images_src, ending, BratsChannels) :
            /\ imagesTr' = CopyChannels(imagesTr, base, ending, UuidChannelFiles(uuid, ending), BratsChannels)
            /\ dataset' = UpdateManifest(dataset, base, ending)
            /\ calls' = Append(calls, Ended(nifti_id, "ok", base))

\* lines 697-746: channel by channel, the first file a pattern finds; found[ch]
\* are the files glob may list first for channel ch
CopyPatternChannels(nifti_id, base, ending) ==
    /\ IsHeart(nifti_id) \/ UuidMatches(raw_images_src, ending) = {}
    /\ \E found \in {[ch \in 0..(NumChannels(nifti_id) - 1) |-> FoundFiles(raw_images_src, PossibleFilenames(nifti_id, ch, ending))]} :
       \E missing \in {{ch \in DOMAIN found : found[ch] = {}}} :
       \E upto \in {IF missing = {} THEN NumChannels(nifti_id) ELSE MinOf(missing)} :
       \E src \in [0..(upto - 1) -> UNION {found[ch] : ch \in 0..(upto - 1)}] :
            /\ \A ch \in 0..(upto - 1) : src[ch] \in found[ch]
            /\ imagesTr' = CopyChannels(imagesTr, base, ending, src, upto)
            /\ IF missing = {}
               THEN /\ dataset' = UpdateManifest(dataset, base, ending)
                    /\ calls' = Append(calls, Ended(nifti_id, "ok", base))
               ELSE /\ dataset' = dataset
                    /\ calls' = Append(calls, Ended(nifti_id, "FileNotFoundError", <<>>))

\* insert_corrected_annotation_with_multichannel(corrected_nii_file,
\* dataset_folder, raw_images_src, nifti_id), from its call to its return or raise
InsertCall(nifti_id) ==
    \/ /\ exists # Paths
       /\ RaiseEarly(nifti_id, "FileNotFoundError")
    \/ /\ exists = Paths
       /\ CaseNumber(nifti_id) = <<>>
       /\ RaiseEarly(nifti_id, "ValueError")
    \/ /\ exists = Paths
       /\ CaseNumber(nifti_id) # <<>>
       /\ \E base \in {BaseCaseId(nifti_id)} : \E ending \in {FileEnding(dataset)} :
            /\ labelsTr' = CopyInto(labelsTr, base \o ending, CorrectedFile)
            /\ \/ ~IsHeart(nifti_id) /\ CopyUuidChannels(nifti_id, base, ending)
               \/ CopyPatternChannels(nifti_id, base, ending)
       /\ UNCHANGED <<exists, raw_images_src>>

\* a call made directly, with any of the ids
Insert ==
    /\ Len(calls) < MaxCalls
    /\ pc = "idle"
    /\ \E nifti_id \in NiftiIds : InsertCall(nifti_id)
    /\ UNCHANGED cocoVars
    /\ UNCHANGED serverVars

NextDataset == Insert

SpecDataset == InitDataset /\ [][NextDataset]_vars

\* ------------------------------------------------------ send_to_dataset
\* Most task ids of one request.
MaxTasks == 2

UnknownDataset == "Dataset003_Unknown"

\* dataset_type = data.get("dataset") when the request names none
NoDatasetType == "None"

\* task ids as the request spells them: numbers, and a string int() rejects
TaskTokens == {<<"1">>, <<"2">>, <<"x">>}

TaskLists == UNION {[1..n -> TaskTokens] : n \in 0..MaxTasks}

User == <<"u">>

SendRequest(task_ids, username, password, dataset_name) ==
    [data |-> TRUE, task_ids |-> task_ids, username |-> username, password |-> password, dataset |-> dataset_name]

TwoTasks == <<<<"1">>, <<"2">>>>

\* the request bodies of a run
SendRequests ==
    {SendRequest(ids, User, User, NoDatasetType) : ids \in TaskLists}
        \cup {SendRequest(TwoTasks, User, User, d) : d \in {BrainTumour, Heart, UnknownDataset}}
        \cup {SendRequest(TwoTasks, Missing, User, NoDatasetType),
              SendRequest(TwoTasks, User, Missing, NoDatasetType),
              NoRequest}

\* s.split('_', 1): the part after the first "_", s itself when there is none
AfterFirstUnderscore(s) ==
    LET at == {k \in 1..Len(s) : s[k] = "_"}
    IN  IF at = {} THEN s ELSE SubSeq(s, MinOf(at) + 1, Len(s))

\* base_name of upload_tasks: the extensions .gz and .nii are removed
BaseName(nifti_id) ==
    LET root == SplitExtRoot(AfterFirstUnderscore(nifti_id))
    IN  IF EndsWith(root, <<".", "n", "i", "i">>) THEN SplitExtRoot(root) ELSE root

\* task_name = f"Medical Scan - {base_name}"
TaskName(nifti_id) == <<"M", "e", "d", "i", "c", "a", "l", " ", "S", "c", "a", "n", " ", "-", " ">> \o BaseName(nifti_id)

\* the file corrected_tasks/<task_id> - <base_name>.json upload_tasks writes
TaskInfo(nifti_id) ==
    [found |-> TRUE, nifti_id |-> nifti_id, task_name |-> TaskName(nifti_id),
     dataset_type |-> IF Contains(nifti_id, La) THEN Heart ELSE BrainTumour]

NoTaskInfo == [found |-> FALSE]

\* the folders corrected_tasks of a run, by task id. The model follows one
\* dataset folder; the entry of a task names the dataset its case went to.
TaskRecords ==
    { <<TaskInfo(Id_BRATS_100), NoTaskInfo>>,
      <<TaskInfo(Id_BRATS_100), TaskInfo(Id_case7)>>,
      <<TaskInfo(Id_la_3), TaskInfo(Id_la_3)>>,
      <<TaskInfo(Id_la_3), TaskInfo(Id_BRATS_100)>> }

\* what the export of one task's annotations comes to: the request to start
\* it is refused, it starts and the polling or download fails, or the file
\* arrives
ExportOutcomes == {"refused", "failed", "downloaded"}

\* the annotation files CVAT returns
SendDocs == {NoDoc, [categories |-> <<>>, images |-> <<ImageRecord(0, 0, MaxDim - 1, MaxDim - 1)>>, annotations |-> <<>>]}

AnnotationsFile(task_id) == <<"a", "n", "n", "o", "t", "a", "t", "i", "o", "n", "s", "_">> \o task_id

SegmentationFile(task_id) == <<"s", "e", "g", "m", "e", "n", "t", "a", "t", "i", "o", "n", "_">> \o task_id

\* the dataset folders and raw image folders of a run
SendFolders ==
    { [exists |-> {}, dataset |-> NoManifest, raw |-> {}],
      [exists |-> Paths, dataset |-> [file_ending |-> NiiGz, has_training |-> TRUE, training |-> <<>>, numTraining |-> 0],
       raw |-> ChannelFiles(Uuid_ab, BratsChannels) \cup ChannelFiles(Id_la_3, 1)],
      [exists |-> Paths, dataset |-> NoManifest, raw |-> ChannelFiles(Id_BRATS_100, 2)] }

InitSend ==
    /\ pc = "received"
    /\ volume = NoVolume /\ coco = NoDoc /\ decoded = NoVolume
    /\ request \in SendRequests
    /\ dataset_type = (IF request.data THEN request.dataset ELSE NoDatasetType)
    /\ response = NoResponse
    /\ results = <<>>
    /\ task_index = 0
    /\ pending = NoPending
    /\ exports = {}
    /\ persistent_dir = NoFolder /\ export_rq = NoExportRq
    /\ cvat_accepts \in BOOLEAN
    /\ corrected_tasks \in TaskRecords
    /\ niftis_exists \in BOOLEAN
    /\ \E folder \in SendFolders :
         /\ exists = folder.exists
         /\ dataset = folder.dataset
         /\ raw_images_src = (IF niftis_exists THEN folder.raw ELSE {})
    /\ imagesTr = OldFiles({})
    /\ labelsTr = OldFiles({})
    /\ calls = <<>>
    /\ NoExport
    /\ NoJobs

Respond(code, body) == [code |-> code, body |-> body]

\* the handler returns before the loop
Reject(code, body) ==
    /\ response' = Respond(code, body)
    /\ pc' = "responded"
    /\ UNCHANGED <<results, task_index>>

\* lines 815-840: the request is checked and CVAT is asked for a token
StartSend ==
    /\ pc = "received"
    /\ IF ~request.data THEN Reject(400, "No data provided.")
       ELSE IF request.task_ids = <<>> THEN Reject(400, "No task IDs provided.")
       ELSE IF request.username = Missing \/ request.password = Missing
            THEN Reject(400, "CVAT credentials are required.")
       ELSE IF ~cvat_accepts THEN Reject(401, "CVAT authentication failed")
       ELSE /\ pc' = "processing"
            /\ results' = <<>>
            /\ UNCHANGED <<response, task_index>>
    /\ UNCHANGED <<volume, dataset_type, coco, decoded>>
    /\ UNCHANGED datasetVars
    /\ UNCHANGED <<export_rq, request, pending, exports, persistent_dir, niftis_exists, cvat_accepts, corrected_tasks>>
    /\ UNCHANGED exportVars
    /\ UNCHANGED jobVars

\* results.append({"task_id": task_id, "error": "Task not found in CVAT."})
NotFoundEntry(task_id) == [task_id |-> task_id, status |-> "not found", error |-> "Task not found in CVAT.", new_case_id |-> Missing]

\* results.append({"task_id": task_id, "status": "error", "error": str(e)})
ErrorEntry(task_id, error) == [task_id |-> task_id, status |-> "error", error |-> error, new_case_id |-> Missing]

SuccessEntry(task_id, new_case_id, dt) ==
    [task_id |-> task_id, status |-> "success", error |-> "", new_case_id |-> new_case_id, dataset_type |-> dt]

\* how far one task got before the insertion: the entry it appended (or
\* none yet) and what it left behind
Reached(entry, started, dir, made, dt, nifti_id) ==
    [done |-> TRUE, entry |-> entry, exports |-> started, persistent_dir |-> dir, exists |-> made,
     dataset_type |-> dt, nifti_id |-> nifti_id]

ReadyToInsert(started, dir, made, dt, nifti_id) ==
    [done |-> FALSE, exports |-> started, persistent_dir |-> dir, exists |-> made,
     dataset_type |-> dt, nifti_id |-> nifti_id]

\* lines 921-936: a heart case id is rewritten as la_<number>
FormatHeartId(dt, info) ==
    IF dt # Heart THEN info.nifti_id
    ELSE LET case_number == IF SearchLa(info.nifti_id) # <<>> THEN SearchLa(info.nifti_id)
                            ELSE IF SearchLa(info.task_name) # <<>> THEN SearchLa(info.task_name)
                            ELSE SearchDigits(info.nifti_id)
         IN  IF case_number = <<>> THEN info.nifti_id ELSE La \o ZFill(case_number, 3)

\* a failed task that leaves no entry behind
SkipFailure(list, entry) == list

\* the except branch of the loop: results.append(...) with the task's error
RecordFailure(list, entry) == Append(list, entry)

\* lines 844-918 for one task id: retrieve, download, look up the nifti id,
\* choose the dataset, make its folders, convert, look for the raw folder
Attempt(token, found, export, doc) ==
    IF ParseInt(token) < 0 THEN Reached(ErrorEntry(token, "ValueError"), exports, persistent_dir, exists, dataset_type, Missing)
    ELSE IF ~found THEN Reached(NotFoundEntry(token), exports, persistent_dir, exists, dataset_type, Missing)
    ELSE
    LET dir == [persistent_dir EXCEPT !.exists = TRUE]
        started == IF export = "refused" THEN exports ELSE exports \cup {token}
    IN
    IF export # "downloaded" THEN Reached(ErrorEntry(token, "export"), started, dir, exists, dataset_type, Missing)
    ELSE
    LET files == [dir EXCEPT !.files = @ \cup {AnnotationsFile(token)}]
        info == corrected_tasks[ParseInt(token)]
    IN
    IF ~info.found THEN Reached(ErrorEntry(token, "Nifti ID not found"), started, files, exists, dataset_type, Missing)
    ELSE
    LET named == IF dataset_type = NoDatasetType THEN info.dataset_type ELSE dataset_type
        dt == IF SearchLa(info.nifti_id) # <<>> THEN Heart ELSE named
    IN
    IF dt \notin DatasetTypes THEN Reached(ErrorEntry(token, "Invalid dataset type"), started, files, exists, dt, Missing)
    ELSE
    LET made == exists \cup {"imagesTr", "labelsTr"}
        converted == [files EXCEPT !.files = @ \cup {SegmentationFile(token)}]
    IN
    IF ~convert_coco_annotations_to_nii(doc).ok
    THEN Reached(ErrorEntry(token, "ValueError"), started, files, made, dt, Missing)
    ELSE IF ~niftis_exists
    THEN Reached(ErrorEntry(token, "Raw images folder not found"), started, converted, made, dt, Missing)
    ELSE ReadyToInsert(started, converted, made, dt, FormatHeartId(dt, info))

\* one pass of the loop up to the insertion
ProcessTask ==
    /\ pc = "processing"
    /\ task_index < Len(request.task_ids)
    /\ \E found \in BOOLEAN : \E export \in ExportOutcomes : \E doc \in SendDocs :
       \E a \in {Attempt(request.task_ids[task_index + 1], found, export, doc)} :
         /\ exports' = a.exports
         /\ persistent_dir' = a.persistent_dir
         /\ exists' = a.exists
         /\ dataset_type' = a.dataset_type
         /\ IF a.done
            THEN /\ results' = RecordFailure(results, a.entry)
                 /\ task_index' = task_index + 1
                 /\ UNCHANGED <<pc, pending>>
            ELSE /\ pc' = "inserting"
                 /\ pending' = [task_id |-> request.task_ids[task_index + 1], nifti_id |-> a.nifti_id]
                 /\ UNCHANGED <<results, task_index>>
    /\ UNCHANGED <<volume, coco, decoded, imagesTr, labelsTr, dataset, raw_images_src, calls>>
    /\ UNCHANGED <<export_rq, request, response, niftis_exists, cvat_accepts, corrected_tasks>>
    /\ UNCHANGED exportVars
    /\ UNCHANGED jobVars

\* lines 938-958: the insertion, and the entry it ends the pass with
InsertTask ==
    /\ pc = "inserting"
    /\ InsertCall(pending.nifti_id)
    /\ \E call \in {calls'[Len(calls')]} :
         results' = IF call.result = "ok" THEN Append(results, SuccessEntry(pending.task_id, call.base_case_id, dataset_type))
                    ELSE RecordFailure(results, ErrorEntry(pending.task_id, call.result))
    /\ task_index' = task_index + 1
    /\ pending' = NoPending
    /\ pc' = "processing"
    /\ UNCHANGED <<volume, dataset_type, coco, decoded>>
    /\ UNCHANGED <<export_rq, request, response, exports, persistent_dir, niftis_exists, cvat_accepts, corrected_tasks>>
    /\ UNCHANGED exportVars
    /\ UNCHANGED jobVars

\* lines 960-964: the loop is over
FinishSend ==
    /\ pc = "processing"
    /\ task_index = Len(request.task_ids)
    /\ response' = [code |-> 200, body |-> "Tasks processed successfully", results |-> results]
    /\ pc' = "responded"
    /\ UNCHANGED <<volume, dataset_type, coco, decoded>>
    /\ UNCHANGED datasetVars
    /\ UNCHANGED <<export_rq, request, results, task_index, pending, exports, persistent_dir, niftis_exists, cvat_accepts, corrected_tasks>>
    /\ UNCHANGED exportVars
    /\ UNCHANGED jobVars

NextSend == StartSend \/ ProcessTask \/ InsertTask \/ FinishSend

SpecSend == InitSend /\ [][NextSend]_vars

\* ------------------------------------------------------- export polling
\* Most status queries of one download.
MaxPolls == 3

\* status_response: its status code and the "status" of its JSON body
StatusResponse(status_code, status) == [status_code |-> status_code, status |-> status]

\* what the result_url of a finished request serves: nothing (no result_url),
\* a JSON file, a zip archive with or without a JSON member
ExportResults == {"none", "json", "zip", "zip without json"}

\* output_zip = task_{task.id}_annotations.zip
AnnotationsZip(task_id) == <<"task_">> \o task_id \o <<"_annotations.zip">>

\* json_files[0], extracted into persistent_dir
ExtractedJson == <<"annotations/instances_default.json">>

\* the task whose corrected annotation is downloaded
PollTasks == {<<"1">>, <<"2">>}

InitPoll ==
    /\ pc = "export"
    /\ volume = NoVolume /\ dataset_type = BrainTumour /\ coco = NoDoc /\ decoded = NoVolume
    /\ NoDataset
    /\ request = NoRequest /\ response = NoResponse /\ results = <<>> /\ task_index = 0
    /\ pending \in {[task_id |-> t, nifti_id |-> Missing] : t \in PollTasks}
    /\ exports = {}
    /\ persistent_dir = [exists |-> TRUE, files |-> {}]
    /\ niftis_exists = FALSE
    /\ cvat_accepts \in BOOLEAN
    /\ corrected_tasks = <<>>
    /\ export_rq = NoExportRq
    /\ NoExport
    /\ NoJobs

PollParked ==
    /\ UNCHANGED <<volume, dataset_type, coco, decoded>>
    /\ UNCHANGED datasetVars
    /\ UNCHANGED <<request, response, results, task_index, pending, niftis_exists, cvat_accepts, corrected_tasks>>
    /\ UNCHANGED exportVars
    /\ UNCHANGED jobVars

\* lines 479-491: the token, the export POST and the rq_id of its answer
InitiateExport ==
    /\ pc = "export"
    /\ IF ~cvat_accepts
       THEN pc' = "raised" /\ UNCHANGED <<exports, export_rq>>
       ELSE \E status_code \in {202, 500} : \E rq_id \in BOOLEAN :
              IF status_code # 202
              THEN pc' = "raised" /\ UNCHANGED <<exports, export_rq>>
              ELSE /\ exports' = exports \cup {pending.task_id}
                   /\ export_rq' = ExportRq("queued", "none", <<>>)
                   /\ pc' = IF rq_id THEN "polling" ELSE "raised"
    /\ UNCHANGED persistent_dir
    /\ PollParked

\* CVAT works on the request: queued, started, then finished or failed
CvatWorker ==
    /\ \/ /\ export_rq.status = "queued"
          /\ export_rq' = [export_rq EXCEPT !.status = "started"]
       \/ /\ export_rq.status = "started"
          /\ \E result \in ExportResults : export_rq' = [export_rq EXCEPT !.status = "finished", !.result = result]
       \/ /\ export_rq.status = "started"
          /\ export_rq' = [export_rq EXCEPT !.status = "failed"]
    /\ UNCHANGED <<pc, exports, persistent_dir>>
    /\ PollParked

\* lines 498-506: where one pass of the while loop leaves the function
AfterPoll(status_response) ==
    IF status_response.status_code # 200 THEN "raised"
    ELSE IF status_response.status = "finished" THEN "download"
    ELSE "polling"

\* lines 497-506: one status query, and time.sleep(2) when the loop goes on
Poll ==
    /\ pc = "polling"
    /\ Len(export_rq.answers) < MaxPolls
    /\ \E status_code \in {200, 500} :
       \E status_response \in {StatusResponse(status_code, IF status_code = 200 THEN export_rq.status ELSE "none")} :
         /\ export_rq' = [export_rq EXCEPT !.answers = Append(@, status_response)]
         /\ pc' = AfterPoll(status_response)
    /\ UNCHANGED <<exports, persistent_dir>>
    /\ PollParked

\* lines 509-544: the download of result_url and the file it leaves
Download ==
    /\ pc = "download"
    /\ \E ok \in BOOLEAN : \E task_id \in {pending.task_id} :
         IF export_rq.result = "none" \/ ~ok
         THEN pc' = "raised" /\ UNCHANGED persistent_dir
         ELSE IF export_rq.result = "json"
         THEN /\ persistent_dir' = [persistent_dir EXCEPT !.files = @ \cup {AnnotationsFile(task_id)}]
              /\ pc' = "returned"
         ELSE IF export_rq.result = "zip"
         THEN /\ persistent_dir' = [persistent_dir EXCEPT !.files = @ \cup {AnnotationsZip(task_id), ExtractedJson}]
              /\ pc' = "returned"
         ELSE /\ persistent_dir' = [persistent_dir EXCEPT !.files = @ \cup {AnnotationsZip(task_id)}]
              /\ pc' = "raised"
    /\ UNCHANGED <<exports, export_rq>>
    /\ PollParked

NextPoll == InitiateExport \/ CvatWorker \/ Poll \/ Download

\* download_corrected_annotations_for_task(task, persistent_dir, cvat_username, cvat_password)
SpecPoll == InitPoll /\ [][NextPoll]_vars

\* --------------------------------------------------------- upload_tasks
\* nifti ids of results to export: job a with result s.nii.gz, job b with la_3
Nifti_a_s == <<"a", "_", "s">> \o NiiGz

Nifti_b_la_3 == <<"b", "_">> \o Id_la_3

ExportIds == {Nifti_a_s, Nifti_b_la_3}

ExportRequest(nifti_ids, username, password) ==
    [data |-> TRUE, nifti_ids |-> nifti_ids, cvat_username |-> username, cvat_password |-> password]

\* the request bodies of a run
ExportRequests ==
    {ExportRequest(ids, User, User) : ids \in UNION {[1..n -> ExportIds] : n \in 0..MaxTasks}}
        \cup {ExportRequest(<<Nifti_a_s>>, Missing, User), ExportRequest(<<Nifti_a_s>>, User, Missing)}

\* parts = nifti_id.split('_', 1); job_id = parts[0]
JobIdOf(nifti_id) ==
    LET at == {k \in 1..Len(nifti_id) : nifti_id[k] = "_"}
    IN  IF at = {} THEN nifti_id ELSE SubSeq(nifti_id, 1, MinOf(at) - 1)

\* f"{job_id}_{base_name}"
JobBase(nifti_id) == JobIdOf(nifti_id) \o <<"_">> \o BaseName(nifti_id)

\* os.path.join(TEMP_UPLOADS_PATH, 'pngs', name)
PngDir(name) == <<"temp_uploads/pngs/">> \o name

\* os.path.join(TEMP_RESULTS_PATH, 'niftis', f"{job_id}_{base_name}.nii.gz")
ResultNifti(nifti_id) == <<"temp_results/niftis/">> \o JobBase(nifti_id) \o NiiGz

Channel0 == <<"_", "0", "0", "0", "0">>

\* the folders temp_uploads and temp_results of a run
ExportFolders ==
    { {PngDir(JobBase(Nifti_a_s)), ResultNifti(Nifti_a_s), PngDir(JobBase(Nifti_b_la_3) \o Channel0), ResultNifti(Nifti_b_la_3)},
      {PngDir(JobBase(Nifti_a_s)), ResultNifti(Nifti_a_s), PngDir(JobBase(Nifti_b_la_3))},
      {ResultNifti(Nifti_a_s), PngDir(JobBase(Nifti_b_la_3)), ResultNifti(Nifti_b_la_3)} }

\* the result volumes of a run: one whose labels the tables name, one with a
\* label no table names
ExportVolumes ==
    { [h |-> 2, w |-> 2, slices |-> <<[p \in Pix(2, 2) |-> IF p = <<0, 0>> THEN 1 ELSE 0]>>],
      [h |-> 2, w |-> 2, slices |-> <<[p \in Pix(2, 2) |-> IF p = <<0, 0>> THEN MaxLabel + 1 ELSE 0]>>] }

InitExport ==
    /\ pc = "received"
    /\ volume = NoVolume /\ dataset_type = BrainTumour /\ coco = NoDoc /\ decoded = NoVolume
    /\ NoDataset
    /\ request \in ExportRequests \cup {NoRequest}
    /\ response = NoResponse
    /\ results = <<>>
    /\ task_index = 0
    /\ pending = NoPending
    /\ exports = {}
    /\ persistent_dir = NoFolder /\ export_rq = NoExportRq
    /\ niftis_exists = FALSE
    /\ cvat_accepts \in BOOLEAN
    /\ corrected_tasks = <<>>
    /\ uploaded_tasks = <<>>
    /\ cvat_tasks = <<>>
    /\ fs \in ExportFolders
    /\ NoJobs

\* the handler returns: nothing after this runs
Return(code, body) ==
    /\ response' = [code |-> code, body |-> body, tasks |-> <<>>]
    /\ pc' = "responded"

\* lines 1093-1121: the request is checked, CVAT is asked for a token and
\* the folder corrected_tasks is made
StartExport ==
    /\ pc = "received"
    /\ IF ~request.data THEN Return(500, "AttributeError")
       ELSE IF request.nifti_ids = <<>> THEN Return(400, "No files specified for upload")
       ELSE IF request.cvat_username = Missing \/ request.cvat_password = Missing
            THEN Return(400, "CVAT credentials required")
       ELSE IF ~cvat_accepts THEN Return(401, "CVAT authentication failed")
       ELSE pc' = "uploading" /\ UNCHANGED response
    /\ UNCHANGED <<volume, dataset_type, coco, decoded>>
    /\ UNCHANGED datasetVars
    /\ UNCHANGED <<export_rq, request, results, task_index, pending, exports, persistent_dir, niftis_exists, cvat_accepts, corrected_tasks>>
    /\ UNCHANGED <<uploaded_tasks, cvat_tasks, fs>>
    /\ UNCHANGED jobVars

\* a task created in CVAT and what was uploaded to it
CvatTask(task_name, has_data, has_annotations) == [name |-> task_name, data |-> has_data, annotations |-> has_annotations]

\* the entry appended to uploaded_tasks
UploadedEntry(task_id, task_name) == [task_id |-> task_id, task_name |-> task_name]

\* the pass of the loop goes on to the next nifti id
NextItem(tasks, files, records, list) ==
    /\ cvat_tasks' = tasks
    /\ fs' = files
    /\ corrected_tasks' = records
    /\ uploaded_tasks' = list
    /\ task_index' = task_index + 1
    /\ UNCHANGED <<pc, response>>

\* the pass of the loop returns a response
Abort(code, body, tasks, files) ==
    /\ cvat_tasks' = tasks
    /\ fs' = files
    /\ Return(code, body)
    /\ UNCHANGED <<corrected_tasks, uploaded_tasks, task_index>>

\* lines 1123-1240 for one nifti id
UploadItem ==
    /\ pc = "uploading"
    /\ task_index < Len(request.nifti_ids)
    /\ \E nifti_id \in {request.nifti_ids[task_index + 1]} :
       \E create_status \in {201, 500} : \E data_status \in {202, 400} :
       \E vol \in ExportVolumes : \E ann_status \in {200, 202, 400} :
       \E task_id \in {Len(cvat_tasks) + 1} : \E task_name \in {TaskName(nifti_id)} :
       \E zipped \in {fs \cup {<<"/tmp/cvat_upload_">> \o JobBase(nifti_id), <<"/tmp/">> \o JobBase(nifti_id) \o <<".zip">>}} :
       \E saved \in {zipped \cup {<<"annotation_files/task_">> \o Dec(task_id)}} :
         IF PngDir(JobBase(nifti_id)) \notin fs /\ PngDir(JobBase(nifti_id) \o Channel0) \notin fs
         THEN Abort(404, "Original PNG directory not found", cvat_tasks, fs)
         ELSE IF ResultNifti(nifti_id) \notin fs
         THEN Abort(404, "Result PNG directory not found", cvat_tasks, fs)
         ELSE IF create_status # 201
         THEN Abort(400, "Failed to create CVAT task", cvat_tasks, fs)
         ELSE IF data_status # 202
         THEN Abort(400, "Failed to upload data to CVAT task", Append(cvat_tasks, CvatTask(task_name, FALSE, FALSE)), zipped)
         ELSE IF ~generate_coco_annotations_from_nifti(vol, IF Contains(ResultNifti(nifti_id), La) THEN Heart ELSE BrainTumour).ok
         THEN NextItem(Append(cvat_tasks, CvatTask(task_name, TRUE, FALSE)), zipped, corrected_tasks, uploaded_tasks)
         ELSE IF ann_status \notin {200, 202}
         THEN NextItem(Append(cvat_tasks, CvatTask(task_name, TRUE, FALSE)), saved, corrected_tasks, uploaded_tasks)
         ELSE NextItem(Append(cvat_tasks, CvatTask(task_name, TRUE, TRUE)), saved,
                       [k \in 1..task_id |-> IF k = task_id THEN TaskInfo(nifti_id)
                                            ELSE IF k <= Len(corrected_tasks) THEN corrected_tasks[k] ELSE NoTaskInfo],
                       Append(uploaded_tasks, UploadedEntry(task_id, task_name)))
    /\ UNCHANGED <<volume, dataset_type, coco, decoded>>
    /\ UNCHANGED datasetVars
    /\ UNCHANGED <<export_rq, request, results, pending, exports, persistent_dir, niftis_exists, cvat_accepts>>
    /\ UNCHANGED jobVars

\* lines 1242-1246: the loop is over
FinishExport ==
    /\ pc = "uploading"
    /\ task_index = Len(request.nifti_ids)
    /\ response' = [code |-> 200, body |-> "Successfully uploaded", tasks |-> uploaded_tasks]
    /\ pc' = "responded"
    /\ UNCHANGED <<volume, dataset_type, coco, decoded>>
    /\ UNCHANGED datasetVars
    /\ UNCHANGED <<export_rq, request, results, task_index, pending, exports, persistent_dir, niftis_exists, cvat_accepts, corrected_tasks>>
    /\ UNCHANGED <<uploaded_tasks, cvat_tasks, fs>>
    /\ UNCHANGED jobVars

NextExport == StartExport \/ UploadItem \/ FinishExport

SpecExport == InitExport /\ [][NextExport]_vars

\* ------------------------- upload, run, train-nnunet and login requests
\* Two requests are in flight: request 1 is any of the four, request 2 is an
\* upload. Both uploads carry a file of the same name, so both derive the job
\* id JobJ.
RequestIds == {1, 2}

\* how many login calls reach CVAT
MaxLogins == 3

JobJ == <<"j">>

JobK == <<"k">>

Scan == <<"s">> \o NiiGz

\* a JSON value: its type and what it holds
Json(type, val) == [type |-> type, val |-> val]

Null == Json("null", 0)

\* request.files and request.form of an upload: the zip holds NIfTI files
Upload(has_file, config, files) == [kind |-> "upload", has_file |-> has_file, config |-> config, files |-> files]

Run(job_id, config, dir) == [kind |-> "run", job_id |-> job_id, config |-> config, inference_dir |-> dir]

Train(dataset_id, resolution, folds) == [kind |-> "train", dataset_id |-> dataset_id, resolution |-> resolution, folds |-> folds]

Login(username, password) == [kind |-> "login", username |-> username, password |-> password]

Cfg3d == <<"3d_fullres">>

CustomDir == <<"custom_dir">>

UploadRequests ==
    {Upload(TRUE, Missing, {Scan}), Upload(TRUE, <<"2d">>, {}), Upload(FALSE, Missing, {Scan}), Upload(TRUE, <<"3d">>, {Scan})}

RunRequests ==
    {Run(Missing, Cfg3d, Missing), Run(JobJ, Cfg3d, Missing), Run(JobK, Cfg3d, Missing), Run(JobK, Cfg3d, CustomDir),
     Run(JobJ, Missing, Missing)}

All == Json("str", <<"all">>)

TrainRequests ==
    {Train(Json("int", 1), Cfg3d, All),
     Train(Json("int", 1), <<"2d">>, Json("int", 0)),
     Train(Json("int", 1), <<"3d">>, Json("str", <<"3">>)),
     Train(Json("str", <<"1">>), Cfg3d, All),
     Train(Null, Cfg3d, All),
     Train(Json("bool", 1), Cfg3d, All),
     Train(Json("int", 1), <<"4d">>, All),
     Train(Json("int", 1), Cfg3d, Json("str", <<"x">>)),
     Train(Json("int", 1), Cfg3d, Null),
     Train(Json("int", 1), Cfg3d, Json("float", 2))}   \* folds 2.5, held as its integer part

\* the password CVAT holds for User
Password == <<"p", "w">>

LoginRequests == {Login(User, Password), Login(User, <<"x">>), Login(Missing, Password), Login(User, Missing)}

\* a document of the users collection; last_login counts the CVAT logins made
\* when it was set
UserDoc(username, last_login) == [username |-> username, last_login |-> last_login]

\* a folder: whether it exists and, by file name, whose upload each file is
\* from (0: left by an earlier job)
Folder(files) == [exists |-> TRUE, files |-> files]

Holding(names, owner) == [f \in names |-> owner]

\* shutil.copy2 of the files src into a folder
CopyAll(folder, src) == [folder EXCEPT !.files = [f \in DOMAIN @ \cup DOMAIN src |-> IF f \in DOMAIN src THEN src[f] ELSE @[f]]]

\* makedirs without an rmtree before it: the files of the folder stay
KeepOrCreate(folder) == IF folder.exists THEN folder ELSE Folder(<<>>)

\* a folder that is made if missing and otherwise left as it is
RecreateKeeping(folder) == IF folder.exists THEN folder ELSE [exists |-> TRUE, files |-> <<>>]

\* if os.path.exists(d): shutil.rmtree(d); os.makedirs(d, exist_ok=True)
Recreate(folder) == Folder(<<>>)

InitServer ==
    /\ NoCoco /\ NoDataset
    /\ request = NoRequest /\ response = NoResponse /\ results = <<>> /\ task_index = 0 /\ pending = NoPending
    /\ exports = {} /\ persistent_dir = NoFolder /\ export_rq = NoExportRq /\ niftis_exists = FALSE /\ corrected_tasks = <<>>
    /\ uploaded_tasks = <<>> /\ cvat_tasks = <<>>
    /\ requests \in [RequestIds -> UploadRequests \cup RunRequests \cup TrainRequests \cup LoginRequests]
    /\ requests[2] \in UploadRequests
    /\ responses = [r \in RequestIds |-> NoResponse]
    /\ stage = [r \in RequestIds |-> "received"]
    /\ nifti_paths = [r \in RequestIds |-> {}]
    /\ zip_file = NoFile
    /\ temp_extract_dir = NoDir
    /\ inference_dir \in {NoDir, Folder(Holding({Scan}, 0))}
    /\ niftis_dir = Folder(<<>>)
    /\ fs \in {{}, {CustomDir, CustomDir \o <<"/">> \o Scan}}
    /\ subprocesses = <<>>
    /\ cvat_logins = <<>>
    /\ users \in {<<>>, <<UserDoc(User, 0)>>}
    /\ session = [r \in RequestIds |-> NoSession]
    /\ cvat_accepts \in BOOLEAN

\* the request r moves to position p, the other request stays
Goto(r, p) == stage' = [stage EXCEPT ![r] = p]

\* the handler of request r returns
Answer(r, code, error) ==
    /\ responses' = [responses EXCEPT ![r] = [code |-> code, error |-> error]]
    /\ Goto(r, "responded")

Parked == UNCHANGED cocoVars /\ UNCHANGED datasetVars /\ UNCHANGED sendVars /\ UNCHANGED <<uploaded_tasks, cvat_tasks, requests>>

\* request.form.get('config', '3d_fullres')
ConfigOf(req) == IF req.config = Missing THEN Cfg3d ELSE req.config

\* handle_upload lines 22-45: the checks, then file.save(zip_path)
SaveZip(r) ==
    /\ requests[r].kind = "upload" /\ stage[r] = "received"
    /\ IF ~requests[r].has_file
       THEN Answer(r, 400, <<"No file uploaded">>) /\ UNCHANGED zip_file
       ELSE IF ConfigOf(requests[r]) \notin {<<"2d">>, Cfg3d}
       THEN Answer(r, 400, <<"Invalid config">>) /\ UNCHANGED zip_file
       ELSE /\ zip_file' = [present |-> TRUE, owner |-> r, files |-> requests[r].files]
            /\ Goto(r, "saved")
            /\ UNCHANGED responses
    /\ UNCHANGED <<nifti_paths, temp_extract_dir, inference_dir, niftis_dir, fs, subprocesses, cvat_logins, users, session>>
    /\ Parked

\* process_upload lines 166-176: niftis, pngs and a fresh temp_extract_<job_id>
RecreateExtractDir(r) ==
    /\ stage[r] = "saved"
    /\ temp_extract_dir' = Recreate(temp_extract_dir)
    /\ fs' = fs \cup {<<"temp_uploads/pngs">>}
    /\ Goto(r, "extract_ready")
    /\ UNCHANGED <<responses, nifti_paths, zip_file, inference_dir, niftis_dir, subprocesses, cvat_logins, users, session>>
    /\ Parked

\* process_upload lines 178-181: a fresh inference_temp_<job_id>
RecreateInferenceDir(r) ==
    /\ stage[r] = "extract_ready"
    /\ inference_dir' = Recreate(inference_dir)
    /\ Goto(r, "inference_ready")
    /\ UNCHANGED <<responses, nifti_paths, zip_file, temp_extract_dir, niftis_dir, fs, subprocesses, cvat_logins, users, session>>
    /\ Parked

\* process_upload lines 184-185: the zip at zip_path, whoever saved it last,
\* is extracted; a missing zip raises and handle_upload answers 500
ExtractAll(r) ==
    /\ stage[r] = "inference_ready"
    /\ IF ~zip_file.present
       THEN Answer(r, 500, <<"FileNotFoundError">>) /\ UNCHANGED temp_extract_dir
       ELSE /\ temp_extract_dir' = CopyAll(KeepOrCreate(temp_extract_dir), Holding(zip_file.files, zip_file.owner))
            /\ Goto(r, "extracted")
            /\ UNCHANGED responses
    /\ UNCHANGED <<nifti_paths, zip_file, inference_dir, niftis_dir, fs, subprocesses, cvat_logins, users, session>>
    /\ Parked

\* process_upload lines 195-222: the NIfTI files found under temp_extract are
\* copied to the inference folder and, as <job_id>_<name>, to niftis
CopyNiftis(r) ==
    /\ stage[r] = "extracted"
    /\ \E found \in {IF temp_extract_dir.exists THEN temp_extract_dir.files ELSE <<>>} :
         IF DOMAIN found # {} /\ ~inference_dir.exists
         THEN /\ Answer(r, 500, <<"FileNotFoundError">>)
              /\ UNCHANGED <<nifti_paths, inference_dir, niftis_dir, fs>>
         ELSE /\ inference_dir' = (IF DOMAIN found = {} THEN inference_dir ELSE CopyAll(inference_dir, found))
              /\ niftis_dir' = CopyAll(niftis_dir, found)
              /\ nifti_paths' = [nifti_paths EXCEPT ![r] = DOMAIN found]
              /\ fs' = fs \cup {<<"temp_uploads/pngs/">> \o JobJ \o <<"_">> \o f : f \in DOMAIN found}
              /\ Goto(r, "copied")
              /\ UNCHANGED responses
    /\ UNCHANGED <<zip_file, temp_extract_dir, subprocesses, cvat_logins, users, session>>
    /\ Parked

\* process_upload lines 289-292: shutil.rmtree(temp_extract_dir), which raises
\* when the folder is gone, and the zip is removed if it is there
CleanUp(r) ==
    /\ stage[r] = "copied"
    /\ IF ~temp_extract_dir.exists
       THEN Answer(r, 500, <<"FileNotFoundError">>) /\ UNCHANGED <<temp_extract_dir, zip_file>>
       ELSE /\ temp_extract_dir' = NoDir
            /\ zip_file' = NoFile
            /\ Goto(r, "cleaned")
            /\ UNCHANGED responses
    /\ UNCHANGED <<nifti_paths, inference_dir, niftis_dir, fs, subprocesses, cvat_logins, users, session>>
    /\ Parked

\* process_upload lines 294-303 and handle_upload lines 49-64
FinishUpload(r) ==
    /\ stage[r] = "cleaned"
    /\ IF nifti_paths[r] = {} /\ ~inference_dir.exists
       THEN Answer(r, 500, <<"FileNotFoundError">>) /\ UNCHANGED inference_dir
       ELSE IF nifti_paths[r] = {} /\ DOMAIN inference_dir.files = {}
       THEN Answer(r, 400, <<"No valid PNG slices or NIfTI files found in uploaded ZIP.">>) /\ inference_dir' = NoDir
       ELSE /\ responses' = [responses EXCEPT ![r] = [code |-> 200, job_id |-> JobJ, nifti_paths |-> nifti_paths[r]]]
            /\ Goto(r, "responded")
            /\ UNCHANGED inference_dir
    /\ UNCHANGED <<nifti_paths, zip_file, temp_extract_dir, niftis_dir, fs, subprocesses, cvat_logins, users, session>>
    /\ Parked

\* os.path.join(TEMP_UPLOADS_PATH, f'inference_temp_{job_id}')
InferenceTemp(job_id) == <<"temp_uploads/inference_temp_">> \o job_id

\* os.path.exists(path): the folder of job j, or a path of fs
DirExists(path) == (path = InferenceTemp(JobJ) /\ inference_dir.exists) \/ path \in fs

\* the files of fs in the folder path, by name
FilesIn(path) == {SubSeq(p, Len(path) + 2, Len(p)) : p \in {q \in fs : StartsWith(q, path \o <<"/">>)}}

\* glob of *.nii and *.nii.gz in the input folder
InputFiles(path) == (IF path = InferenceTemp(JobJ) THEN DOMAIN inference_dir.files ELSE {}) \cup FilesIn(path)

TempInference(job_id) == <<"temp_results/temp_inference_">> \o job_id

ResultDirs == {<<"temp_results/niftis">>, <<"temp_results/pngs">>}

\* a command run with subprocess.run and the exit status it returned
Started(cmd, returncode) == [cmd |-> cmd, returncode |-> returncode]

\* what the command wrote to stderr before it exited non-zero
Stderr == <<"stderr of nnUNetv2_predict">>

\* the temporary output folder is left in place
KeepTempOutput(paths, job_id) == paths

\* shutil.rmtree(temp_output_dir)
RemoveTempOutput(paths, job_id) == paths \ {TempInference(job_id)}

\* os.makedirs of temp_results/niftis, temp_results/pngs and temp_output_dir
MakeResultDirs(paths, job_id) == paths \cup ResultDirs \cup {TempInference(job_id)}

\* run_inference_pipeline lines 46-140: what it returns for the input folder
\* when the command, if it gets that far, exits with returncode
RunInferencePipeline(input, returncode) ==
    IF InputFiles(input) = {}
    THEN [status |-> "failed", error |-> <<"Unexpected error during inference: No NIfTI files found in directory: ">> \o input,
          commands |-> <<>>]
    ELSE IF returncode # 0
    THEN [status |-> "failed", error |-> <<"Inference failed: ">> \o Stderr,
          commands |-> <<Started("nnUNetv2_predict", returncode)>>]
    ELSE [status |-> "success", error |-> Missing, commands |-> <<Started("nnUNetv2_predict", 0)>>]

\* handle_inference lines 70-148, with run_inference_pipeline
HandleInference(r) ==
    /\ requests[r].kind = "run" /\ stage[r] = "received"
    /\ \E req \in {requests[r]} : \E returncode \in {0, 1} :
       \E input \in {IF req.inference_dir # Missing /\ DirExists(req.inference_dir)
                     THEN req.inference_dir ELSE InferenceTemp(req.job_id)} :
         IF req.job_id = Missing \/ req.config = Missing
         THEN Answer(r, 400, <<"Missing parameters">>) /\ UNCHANGED <<fs, subprocesses>>
         ELSE IF ~DirExists(input)
         THEN Answer(r, 500, <<"Inference directory not found for job ">> \o req.job_id) /\ UNCHANGED <<fs, subprocesses>>
         ELSE \E inference_results \in {RunInferencePipeline(input, returncode)} :
              /\ subprocesses' = subprocesses \o inference_results.commands
              /\ IF inference_results.status = "failed"
                 THEN /\ Answer(r, 500, inference_results.error)
                      /\ fs' = RemoveTempOutput(MakeResultDirs(fs, req.job_id), req.job_id)
                 ELSE /\ responses' = [responses EXCEPT ![r] = [code |-> 200, job_id |-> req.job_id]]
                      /\ Goto(r, "responded")
                      /\ fs' = RemoveTempOutput(MakeResultDirs(fs, req.job_id), req.job_id)
                                  \cup {<<"temp_results/niftis/">> \o req.job_id \o <<"_">> \o f : f \in InputFiles(input)}
    /\ UNCHANGED <<nifti_paths, zip_file, temp_extract_dir, inference_dir, niftis_dir, cvat_logins, users, session>>
    /\ Parked

\* isinstance(dataset_id, int): bool is a subclass of int
IsInstanceInt(j) == j.type \in {"int", "bool"}

\* whether int(folds) returns: numbers convert (a float is truncated), a
\* string converts when it spells an integer, None raises TypeError
IntConverts(j) == j.type \in {"int", "bool", "float"} \/ (j.type = "str" /\ ParseInt(j.val) >= 0)

\* train_nnunet lines 19-73
TrainNnunet(r) ==
    /\ requests[r].kind = "train" /\ stage[r] = "received"
    /\ \E req \in {requests[r]} : \E failing \in {0, 1, 2} :
         IF ~IsInstanceInt(req.dataset_id)
         THEN Answer(r, 400, <<"dataset_id (integer) is required">>) /\ UNCHANGED subprocesses
         ELSE IF req.resolution \notin {<<"2d">>, <<"3d">>, Cfg3d}
         THEN Answer(r, 400, <<"resolution must be one of 2d, 3d, 3d_fullres">>) /\ UNCHANGED subprocesses
         ELSE IF ~(req.folds.type = "str" /\ req.folds.val = All.val) /\ ~IntConverts(req.folds)
         THEN Answer(r, 400, <<"folds must be an integer or 'all'">>) /\ UNCHANGED subprocesses
         ELSE IF failing = 1
         THEN Answer(r, 500, <<"CalledProcessError">>) /\ subprocesses' = Append(subprocesses, Started("nnUNetv2_plan_and_preprocess", 1))
         ELSE /\ subprocesses' = subprocesses \o <<Started("nnUNetv2_plan_and_preprocess", 0),
                                                   Started("nnUNetv2_train", IF failing = 2 THEN 1 ELSE 0)>>
              /\ IF failing = 2 THEN Answer(r, 500, <<"CalledProcessError">>)
                 ELSE /\ responses' = [responses EXCEPT ![r] = [code |-> 200]]
                      /\ Goto(r, "responded")
    /\ UNCHANGED <<nifti_paths, zip_file, temp_extract_dir, inference_dir, niftis_dir, fs, cvat_logins, users, session>>
    /\ Parked

\* the status of CVAT's answer to POST /api/auth/login
CvatLoginStatus(username, password) == IF cvat_accepts /\ username = User /\ password = Password THEN 200 ELSE 400

\* authenticate_with_cvat returns whatever CVAT answered
RaisesNever(status_code) == FALSE

\* authenticate_with_cvat lines 18-21: raise unless CVAT answered 200
Raises(status_code) == status_code # 200

\* users_collection.find_one({"username": username}) found a document
Exists(username) == \E i \in 1..Len(users) : users[i].username = username

\* login lines 34-47: the checks, then authenticate_with_cvat
LoginAuthenticate(r) ==
    /\ requests[r].kind = "login" /\ stage[r] = "received"
    /\ Len(cvat_logins) < MaxLogins
    /\ \E req \in {requests[r]} :
         IF req.username = Missing \/ req.password = Missing
         THEN Answer(r, 400, <<"Username and password are required">>) /\ UNCHANGED cvat_logins
         ELSE \E status_code \in {CvatLoginStatus(req.username, req.password)} :
              /\ cvat_logins' = Append(cvat_logins, [client |-> r, username |-> req.username, status_code |-> status_code])
              /\ IF Raises(status_code)
                 THEN Answer(r, 500, <<"Invalid credentials or failed to authenticate with CVAT">>)
                 ELSE Goto(r, "authenticated") /\ UNCHANGED responses
    /\ UNCHANGED <<nifti_paths, zip_file, temp_extract_dir, inference_dir, niftis_dir, fs, subprocesses, users, session>>
    /\ Parked

\* login lines 52-54: existing_user = get_user_by_username(username)
LoginFindUser(r) ==
    /\ stage[r] = "authenticated"
    /\ Goto(r, IF Exists(requests[r].username) THEN "existing_user" ELSE "new_user")
    /\ UNCHANGED <<responses, nifti_paths, zip_file, temp_extract_dir, inference_dir, niftis_dir, fs, subprocesses,
                   cvat_logins, users, session>>
    /\ Parked

\* login lines 57-58 with create_user: insert_one; the unique index on
\* username (init_db line 47) makes it raise DuplicateKeyError when a
\* document of that username is there, and login answers 500
LoginCreateUser(r) ==
    /\ stage[r] = "new_user"
    /\ IF Exists(requests[r].username)
       THEN Answer(r, 500, <<"E11000 duplicate key error">>) /\ UNCHANGED users
       ELSE /\ users' = Append(users, UserDoc(requests[r].username, Len(cvat_logins)))
            /\ Goto(r, "stored")
            /\ UNCHANGED responses
    /\ UNCHANGED <<nifti_paths, zip_file, temp_extract_dir, inference_dir, niftis_dir, fs, subprocesses, cvat_logins, session>>
    /\ Parked

\* login line 63 with update_last_login: update_one sets last_login
LoginUpdateLastLogin(r) ==
    /\ stage[r] = "existing_user"
    /\ users' = [i \in DOMAIN users |-> IF users[i].username = requests[r].username
                                        THEN UserDoc(users[i].username, Len(cvat_logins)) ELSE users[i]]
    /\ Goto(r, "stored")
    /\ UNCHANGED <<responses, nifti_paths, zip_file, temp_extract_dir, inference_dir, niftis_dir, fs, subprocesses,
                   cvat_logins, session>>
    /\ Parked

\* login lines 67-75: the session keys are set and the handler answers 200
LoginSetSession(r) ==
    /\ stage[r] = "stored"
    /\ session' = [session EXCEPT ![r] = [username |-> requests[r].username]]
    /\ responses' = [responses EXCEPT ![r] = [code |-> 200, username |-> requests[r].username]]
    /\ Goto(r, "responded")
    /\ UNCHANGED <<nifti_paths, zip_file, temp_extract_dir, inference_dir, niftis_dir, fs, subprocesses, cvat_logins, users>>
    /\ Parked

NextServer ==
    \E r \in RequestIds :
        \/ SaveZip(r) \/ RecreateExtractDir(r) \/ RecreateInferenceDir(r) \/ ExtractAll(r)
        \/ CopyNiftis(r) \/ CleanUp(r) \/ FinishUpload(r)
        \/ HandleInference(r) \/ TrainNnunet(r)
        \/ LoginAuthenticate(r) \/ LoginFindUser(r) \/ LoginCreateUser(r) \/ LoginUpdateLastLogin(r) \/ LoginSetSession(r)

SpecServer == InitServer /\ [][NextServer]_vars

\* ---------------------------------------------- login, user and logout
\* Two clients, each with its own session cookie, send login, user and logout
\* requests one after the other; the requests of different clients interleave.
GetUserRequest == [kind |-> "user"]

LogoutRequest == [kind |-> "logout"]

AuthRequests == {Login(User, Password), Login(User, <<"x">>), Login(User, Missing), GetUserRequest, LogoutRequest}

InitAuth ==
    /\ NoCoco /\ NoDataset
    /\ request = NoRequest /\ response = NoResponse /\ results = <<>> /\ task_index = 0 /\ pending = NoPending
    /\ exports = {} /\ persistent_dir = NoFolder /\ export_rq = NoExportRq /\ niftis_exists = FALSE /\ corrected_tasks = <<>>
    /\ NoExport
    /\ requests \in [RequestIds -> AuthRequests]
    /\ responses = [r \in RequestIds |-> NoResponse]
    /\ stage = [r \in RequestIds |-> "received"]
    /\ nifti_paths = <<>>
    /\ zip_file = NoFile /\ temp_extract_dir = NoDir /\ inference_dir = NoDir /\ niftis_dir = NoDir
    /\ subprocesses = <<>>
    /\ cvat_logins = <<>>
    /\ users \in {<<>>, <<UserDoc(User, 0)>>}
    /\ session = [r \in RequestIds |-> NoSession]
    /\ cvat_accepts \in BOOLEAN

\* get_user lines 86-101
GetUser(r) ==
    /\ requests[r].kind = "user" /\ stage[r] = "received"
    /\ responses' = [responses EXCEPT ![r] =
                        IF session[r].username = Missing \/ ~Exists(session[r].username)
                        THEN [code |-> 401, authenticated |-> FALSE]
                        ELSE [code |-> 200, authenticated |-> TRUE, username |-> session[r].username]]
    /\ Goto(r, "responded")
    /\ UNCHANGED <<nifti_paths, zip_file, temp_extract_dir, inference_dir, niftis_dir, fs, subprocesses,
                   cvat_logins, users, session>>
    /\ Parked

\* logout lines 108-109: session.clear()
Logout(r) ==
    /\ requests[r].kind = "logout" /\ stage[r] = "received"
    /\ session' = [session EXCEPT ![r] = NoSession]
    /\ responses' = [responses EXCEPT ![r] = [code |-> 200]]
    /\ Goto(r, "responded")
    /\ UNCHANGED <<nifti_paths, zip_file, temp_extract_dir, inference_dir, niftis_dir, fs, subprocesses, cvat_logins, users>>
    /\ Parked

\* the client whose request was answered sends its next request
NextRequest(r) ==
    /\ stage[r] = "responded"
    /\ \E req \in AuthRequests : requests' = [requests EXCEPT ![r] = req]
    /\ responses' = [responses EXCEPT ![r] = NoResponse]
    /\ stage' = [stage EXCEPT ![r] = "received"]
    /\ UNCHANGED <<nifti_paths, zip_file, temp_extract_dir, inference_dir, niftis_dir, fs, subprocesses,
                   cvat_logins, users, session>>
    /\ UNCHANGED cocoVars /\ UNCHANGED datasetVars /\ UNCHANGED sendVars /\ UNCHANGED <<uploaded_tasks, cvat_tasks>>

NextAuth ==
    \E r \in RequestIds :
        \/ LoginAuthenticate(r) \/ LoginFindUser(r) \/ LoginCreateUser(r) \/ LoginUpdateLastLogin(r) \/ LoginSetSession(r)
        \/ GetUser(r) \/ Logout(r) \/ NextRequest(r)

SpecAuth == InitAuth /\ [][NextAuth]_vars

\* ------------------------------------------- an upload and the run after it
\* One client uploads an archive and, when the upload was answered with a job
\* id, sends a run request with that job id. The archive is the set of its
\* member paths; folders are one level deep.
Png == <<".", "p", "n", "g">>

Jpg == <<".", "j", "p", "g">>

Zip == <<".", "z", "i", "p">>

Member(dir, file) == dir \o <<"/">> \o file

T_0000 == <<"t", "_", "0", "0", "0", "0">>

T_0001 == <<"t", "_", "0", "0", "0", "1">>

Y2024 == <<"y", "2", "0", "2", "4">>

Slices == <<"s", "l">>

Photos == <<"p", "h">>

A_png == <<"a">> \o Png

Readme == <<"r", ".", "t", "x", "t">>

C_jpg == <<"c">> \o Jpg

Scan_0001 == <<"s", "_", "0", "0", "0", "1">> \o NiiGz

Archives ==
    { {Scan},
      {Scan_0001},
      {Scan, Member(T_0000, A_png), Member(Slices, A_png)},
      {Member(T_0000, A_png), Member(T_0001, A_png), Member(Slices, A_png)},
      {Member(Slices, A_png)},
      {},
      {Readme},
      {Member(Y2024, Readme)},
      {Member(Y2024, Readme), Member(T_0000, A_png)},
      {Scan, Member(Photos, C_jpg)},
      {Member(Photos, C_jpg)} }

FileNames == {<<"a">> \o Zip, <<"a", ".", "v", "2">> \o Zip, <<"a">> \o NiiGz}

\* the smallest index of c in s, 0 when absent (str.find + 1)
FirstIndexOf(s, c) == IF \E i \in 1..Len(s) : s[i] = c THEN CHOOSE i \in 1..Len(s) : s[i] = c /\ \A j \in 1..(i - 1) : s[j] # c ELSE 0

\* handle_upload lines 34-36 and 41: the file name without its last
\* extension, and without .nii if that is what is left at the end
NameWithoutExt(filename) ==
    LET name_without_ext == SplitExtRoot(filename)
    IN  IF EndsWith(name_without_ext, <<".", "n", "i", "i">>) THEN SplitExtRoot(name_without_ext) ELSE name_without_ext

\* os.path.join(TEMP_UPLOADS_PATH, f'{job_id}.zip')
ZipPath(job_id) == <<"temp_uploads/">> \o job_id \o Zip

\* process_upload line 167: os.path.basename(zip_path).split('.')[0]
ProcessJobId(zip_path) ==
    LET basename == Tail(zip_path)
        dot == FirstIndexOf(basename, ".")
    IN  IF dot = 0 THEN basename ELSE SubSeq(basename, 1, dot - 1)

TempExtract(job_id) == <<"temp_uploads/temp_extract_">> \o job_id

NiftisDir == <<"temp_uploads/niftis">>

PngsDir == <<"temp_uploads/pngs">>

\* os.path.join(niftis_dir, name)
InNiftis(name) == <<"temp_uploads/niftis/">> \o name

\* os.path.join(inference_dir, name)
InInference(job_id, name) == InferenceTemp(job_id) \o <<"/">> \o name

\* the folder of a member, <<>> for a member at the top of the archive
DirName(member) == IF FirstIndexOf(member, "/") = 0 THEN <<>> ELSE SubSeq(member, 1, FirstIndexOf(member, "/") - 1)

\* os.path.basename(member)
FileName(member) == LastPart(member, "/")

\* file.lower().endswith(('.nii', '.nii.gz'))
IsNiftiName(file) == EndsWith(file, <<".", "n", "i", "i">>) \/ EndsWith(file, NiiGz)

\* the file name without .nii or .nii.gz
NiftiBase(file) == IF EndsWith(file, NiiGz) THEN SubSeq(file, 1, Len(file) - 7) ELSE SplitExtRoot(file)

\* process_upload line 202
IsChannel0(filename) ==
    EndsWith(filename, <<"_", "0", "0", "0", "0">>) \/ ~\E i \in 1..Len(LastPart(filename, "_")) : IsDigit(LastPart(filename, "_")[i])

all_nifti_files(archive) == {m \in archive : IsNiftiName(FileName(m))}

channel0_nifti_files(archive) == {m \in all_nifti_files(archive) : IsChannel0(NiftiBase(FileName(m)))}

Folders(archive) == {DirName(m) : m \in archive} \ {<<>>}

\* the pattern .*?(\d{4})$ : the last four characters when all are digits
ModalityCode(folder) ==
    IF Len(folder) >= 4 /\ \A i \in (Len(folder) - 3)..Len(folder) : IsDigit(folder[i])
    THEN SubSeq(folder, Len(folder) - 3, Len(folder)) ELSE <<>>

\* find_modality_folders: the folders whose names end in four digits
find_modality_folders(archive) == {d \in Folders(archive) : ModalityCode(d) # <<>>}

\* glob(os.path.join(png_dir, "*.png"))
PngFiles(archive, folder) == {m \in archive : DirName(m) = folder /\ EndsWith(FileName(m), Png)}

\* process_upload lines 244-247
png_folders(archive) == {d \in Folders(archive) : PngFiles(archive, d) # {}}

\* process_upload lines 263-266
other_image_folders(archive) == {d \in Folders(archive) : \E m \in archive : DirName(m) = d /\ EndsWith(FileName(m), Jpg)}

\* shutil.rmtree(dir): the folder and everything in it
RmTree(paths, dir) == {p \in paths : p # dir /\ ~StartsWith(p, dir \o <<"/">>)}

\* what process_upload returned or raised, and the paths it left
Outcome(raised, paths, converted_paths, dir) ==
    [raised |-> raised, fs |-> paths, nifti_paths |-> converted_paths, inference_dir |-> dir]

\* process_upload lines 160-303 for the archive saved at zip_path; first holds
\* the modality folders that come, in the order of the listing, before the one
\* at which the conversion or the copy raises
ProcessUpload(paths, zip_path, archive, first) ==
    LET job_id == ProcessJobId(zip_path)
        prepared == RmTree(RmTree(paths \cup {NiftisDir, PngsDir}, TempExtract(job_id)), InferenceTemp(job_id))
                        \cup {TempExtract(job_id), InferenceTemp(job_id)}
        niftis == all_nifti_files(archive)
        modality_folders == IF niftis = {} THEN find_modality_folders(archive) ELSE {}
        without_png == {d \in modality_folders : PngFiles(archive, d) = {}}
        converted == IF without_png = {} THEN modality_folders ELSE first \cap (modality_folders \ without_png)
        existing == {d \in modality_folders : PngDir(job_id \o <<"_">> \o ModalityCode(d)) \in paths}
        copied == IF existing = {} THEN converted ELSE first \cap (modality_folders \ existing)
        standalone == IF niftis = {} /\ modality_folders = {} THEN png_folders(archive) ELSE {}
        others == other_image_folders(archive)
        step1 == [nifti_paths |-> {InNiftis(job_id \o <<"_">> \o FileName(m)) : m \in channel0_nifti_files(archive)},
                  inference |-> {InInference(job_id, FileName(m)) : m \in niftis},
                  png_dirs |-> {PngDir(job_id \o <<"_">> \o NiftiBase(FileName(m))) : m \in channel0_nifti_files(archive)}]
        step15 == [nifti_paths |-> {InNiftis(<<"b", "r", "a", "t", "s", "_">> \o job_id \o <<"_">> \o ModalityCode(d) \o NiiGz) : d \in converted},
                   inference |-> {InInference(job_id, <<"b", "r", "a", "t", "s", "_">> \o job_id \o <<"_">> \o ModalityCode(d) \o NiiGz) : d \in copied},
                   png_dirs |-> {PngDir(job_id \o <<"_">> \o ModalityCode(d)) : d \in copied}]
        step2 == [nifti_paths |-> {InNiftis(job_id \o <<"_">> \o d \o <<"_", "0", "0", "0", "0">> \o NiiGz) : d \in standalone},
                  inference |-> {InInference(job_id, d \o <<"_", "0", "0", "0", "0">> \o NiiGz) : d \in standalone},
                  png_dirs |-> {PngDir(job_id \o <<"_">> \o d) : d \in standalone}]
        step3 == [nifti_paths |-> {InNiftis(job_id \o <<"_">> \o d \o <<"_converted_0000">> \o NiiGz) : d \in others},
                  inference |-> {InInference(job_id, d \o <<"_converted_0000">> \o NiiGz) : d \in others},
                  png_dirs |-> {PngDir(job_id \o <<"_">> \o d \o <<"_converted">>) : d \in others}]
        upto1 == prepared \cup step1.nifti_paths \cup step1.inference \cup step1.png_dirs
        upto15 == upto1 \cup step15.nifti_paths \cup step15.inference \cup step15.png_dirs
        result_paths == step1.nifti_paths \cup step15.nifti_paths \cup step2.nifti_paths \cup step3.nifti_paths
        inference == step1.inference \cup step15.inference \cup step2.inference \cup step3.inference
        written == upto15 \cup step2.nifti_paths \cup step2.inference \cup step2.png_dirs
                      \cup step3.nifti_paths \cup step3.inference \cup step3.png_dirs
        cleaned == RmTree(written, TempExtract(job_id)) \ {zip_path}
    IN  IF zip_path \notin paths
        THEN Outcome("FileNotFoundError", prepared, {}, InferenceTemp(job_id))
        ELSE IF without_png # {}
        THEN Outcome("ValueError", upto1 \cup step15.nifti_paths, {}, InferenceTemp(job_id))
        ELSE IF existing # {}
        THEN Outcome("FileExistsError", upto15, {}, InferenceTemp(job_id))
        ELSE IF result_paths = {} /\ inference = {}
        THEN Outcome("ValueError", RmTree(cleaned, InferenceTemp(job_id)), {}, InferenceTemp(job_id))
        ELSE Outcome("", cleaned, result_paths, InferenceTemp(job_id))

\* request.files['file'] with its file name, and request.form
UploadNamed(filename, config, archive) ==
    [kind |-> "upload", has_file |-> TRUE, config |-> config, filename |-> filename, files |-> archive]

\* the client has not sent its run request yet
NotSent == [kind |-> "none"]

\* what an earlier upload of a.zip left under temp_uploads
Leftovers ==
    { {},
      {NiftisDir, PngsDir, InferenceTemp(<<"a">>), InInference(<<"a">>, Scan), InNiftis(<<"a", "_">> \o Scan)},
      {NiftisDir, PngsDir, InferenceTemp(<<"a">>), InInference(<<"a">>, Scan), PngDir(<<"a", "_", "0", "0", "0", "0">>)} }

InitUpload ==
    /\ NoCoco /\ NoDataset /\ NoSend
    /\ uploaded_tasks = <<>> /\ cvat_tasks = <<>>
    /\ \E filename \in FileNames, config \in {Missing, <<"2d">>}, archive \in Archives :
         requests = <<UploadNamed(filename, config, archive), NotSent>>
    /\ responses = [r \in RequestIds |-> NoResponse]
    /\ stage = <<"received", "waiting">>
    /\ nifti_paths = <<>>
    /\ zip_file = NoFile /\ temp_extract_dir = NoDir /\ inference_dir = NoDir /\ niftis_dir = NoDir
    /\ fs \in Leftovers
    /\ subprocesses = <<>>
    /\ cvat_logins = <<>> /\ users = <<>> /\ session = <<>>

\* handle_upload lines 22-68 with process_upload
HandleUpload(r) ==
    /\ requests[r].kind = "upload" /\ stage[r] = "received"
    /\ \E req \in {requests[r]} : \E first \in SUBSET find_modality_folders(req.files) :
       \E job_id \in {NameWithoutExt(req.filename)} :
         IF ~req.has_file
         THEN Answer(r, 400, <<"No file uploaded">>) /\ UNCHANGED fs
         ELSE IF ConfigOf(req) \notin {<<"2d">>, Cfg3d}
         THEN Answer(r, 400, <<"Invalid config">>) /\ UNCHANGED fs
         ELSE \E result \in {ProcessUpload(fs \cup {ZipPath(job_id)}, ZipPath(job_id), req.files, first)} :
              /\ fs' = result.fs
              /\ IF result.raised = "ValueError" THEN Answer(r, 400, <<"ValueError">>)
                 ELSE IF result.raised # "" THEN Answer(r, 500, <<result.raised>>)
                 ELSE /\ responses' = [responses EXCEPT ![r] = [code |-> 200, job_id |-> job_id,
                                                               nifti_paths |-> result.nifti_paths,
                                                               inference_dir |-> result.inference_dir]]
                      /\ Goto(r, "responded")
    /\ UNCHANGED <<nifti_paths, zip_file, temp_extract_dir, inference_dir, niftis_dir, subprocesses, cvat_logins, users, session>>
    /\ Parked

\* the client sends the run request for the job id the upload answered
SendRun(r) ==
    /\ requests[r] = NotSent
    /\ \E u \in RequestIds : /\ requests[u].kind = "upload" /\ stage[u] = "responded" /\ responses[u].code = 200
                             /\ requests' = [requests EXCEPT ![r] = Run(responses[u].job_id, Cfg3d, Missing)]
    /\ stage' = [stage EXCEPT ![r] = "received"]
    /\ UNCHANGED <<responses, nifti_paths, zip_file, temp_extract_dir, inference_dir, niftis_dir, fs, subprocesses,
                   cvat_logins, users, session>>
    /\ UNCHANGED cocoVars /\ UNCHANGED datasetVars /\ UNCHANGED sendVars /\ UNCHANGED <<uploaded_tasks, cvat_tasks>>

NextUpload == \E r \in RequestIds : HandleUpload(r) \/ SendRun(r) \/ HandleInference(r)

SpecUpload == InitUpload /\ [][NextUpload]_vars

\* ------------------------------------------------------ case insertion
LastCall == calls[Len(calls)]

\* the step is a call that raised FileNotFoundError
RaisedNotFound == Len(calls') = Len(calls) + 1 /\ calls'[Len(calls')].result = "FileNotFoundError"

\* C1 (as claimed): a call that raises the not-found error leaves labelsTr,
\* imagesTr and dataset.json exactly as they were before the call.
C1_AllOrNothing == [][RaisedNotFound => (labelsTr' = labelsTr /\ imagesTr' = imagesTr /\ dataset' = dataset)]_vars

\* the positions of the training entries of case base_case_id
EntriesOf(base_case_id) ==
    {i \in 1..Len(dataset.training) :
        \/ dataset.training[i].image = ImagesTrDir \o base_case_id \o <<"_", "0", "0", "0", "0">> \o FileEnding(dataset)
        \/ dataset.training[i].label = LabelsTrDir \o base_case_id \o FileEnding(dataset)}

\* C2: after a successful insertion the training list holds exactly one entry
\* of the inserted case, pairing ./imagesTr/<case>_0000<ending> with
\* ./labelsTr/<case><ending>, and numTraining is the length of the list.
C2_OneEntryPerCase ==
    (calls # <<>> /\ LastCall.result = "ok") =>
        /\ dataset.has_training
        /\ Cardinality(EntriesOf(LastCall.base_case_id)) = 1
        /\ \A i \in EntriesOf(LastCall.base_case_id) :
             /\ dataset.training[i].image = ImagesTrDir \o LastCall.base_case_id \o <<"_", "0", "0", "0", "0">> \o FileEnding(dataset)
             /\ dataset.training[i].label = LabelsTrDir \o LastCall.base_case_id \o FileEnding(dataset)
        /\ dataset.numTraining = Len(dataset.training)

\* the same case inserted twice into a manifest that lists two other cases
C2_Witness ==
    /\ Len(calls) = 2
    /\ calls[1].result = "ok" /\ calls[2].result = "ok"
    /\ calls[1].base_case_id = calls[2].base_case_id
    /\ Len(dataset.training) = 3
    /\ Cardinality(EntriesOf(LastCall.base_case_id)) = 1

\* ------------------------------------------------ round trip and encoder
\* a document was produced from the volume (and possibly decoded again)
Encoded == volume # NoVolume /\ pc \in {"encoded", "decoded"}

RoundTripped == volume # NoVolume /\ pc = "decoded"

Background(sl) == \A p \in DOMAIN sl : sl[p] = 0

\* the non-zero label values of a volume
LabelsPresent(vol) ==
    UNION {{vol.slices[z][p] : p \in DOMAIN vol.slices[z]} : z \in 1..Len(vol.slices)} \ {0}

\* p has the value of all its neighbours: it lies on no object boundary
AwayFromBoundary(sl, p) == \A q \in Neighbours8(p) \cap DOMAIN sl : sl[q] = sl[p]

\* C3 (as claimed): decoding the encoder's document gives back, on every slice,
\* the label of every pixel that does not lie on an object boundary.
C3_RoundTripPixels ==
    RoundTripped =>
        /\ Len(decoded.slices) = Len(volume.slices)
        /\ \A z \in 1..Len(volume.slices) : \A p \in DOMAIN volume.slices[z] :
             AwayFromBoundary(volume.slices[z], p) => decoded.slices[z][p] = volume.slices[z][p]

\* C4: the decoded volume has the depth of the encoded one, and a slice that was
\* all background is all zero at the same index.
C4_RoundTripDepth ==
    RoundTripped =>
        /\ Len(decoded.slices) = Len(volume.slices)
        /\ \A z \in 1..Len(volume.slices) :
             Background(volume.slices[z]) => Background(decoded.slices[z])

\* labelled first and last slices around an all-background slice, decoded
C4_Witness ==
    /\ RoundTripped
    /\ Len(volume.slices) = 3
    /\ ~Background(volume.slices[1]) /\ ~Background(decoded.slices[1])
    /\ Background(volume.slices[2])
    /\ ~Background(volume.slices[3]) /\ ~Background(decoded.slices[3])

\* C5: a volume holding a label the selected table has no name for makes the
\* encoder fail: once the encoder has run, no document exists for such a volume.
C5_UnknownLabelFails ==
    (volume # NoVolume /\ pc # "start" /\ ~(LabelsPresent(volume) \subseteq KnownIds(dataset_type)))
        => (pc = "encode_failed" /\ coco = NoDoc)

\* the heart table, a volume with the known label 1 and the unknown label 2
C5_Witness == pc = "encode_failed" /\ dataset_type = Heart /\ LabelsPresent(volume) = {1, 2}

\* the categories the table gives the labels of a volume, ascending
TableCategories(vol, table) ==
    [i \in 1..Cardinality(LabelsPresent(vol)) |->
        [id |-> SortedSeq(LabelsPresent(vol))[i],
         name |-> IdToName(table, SortedSeq(LabelsPresent(vol))[i])]]

\* C6 (as claimed): for a volume whose labels all have a name the encoder succeeds,
\* with one category per label present, named as the table names that id.
C6_CategoriesMatchTable ==
    (volume # NoVolume /\ pc # "start" /\ LabelsPresent(volume) \subseteq KnownIds(dataset_type))
        => (pc # "encode_failed" /\ coco.categories = TableCategories(volume, dataset_type))

\* the positions of the image records of slice z (1-based)
ImageRecordsOf(z) ==
    {i \in 1..Len(coco.images) : coco.images[i].id = z - 1 \/ coco.images[i].file_name = SliceFileName(z - 1)}

\* C7: one image record per slice; an all-background slice has its image record
\* and no annotation.
C7_EmptySliceImageOnly ==
    Encoded =>
        /\ Len(coco.images) = Len(volume.slices)
        /\ \A z \in 1..Len(volume.slices) :
             Background(volume.slices[z]) =>
                 /\ Cardinality(ImageRecordsOf(z)) = 1
                 /\ \A i \in ImageRecordsOf(z) : coco.images[i] = ImageRecord(z - 1, z - 1, volume.h, volume.w)
                 /\ \A k \in 1..Len(coco.annotations) : coco.annotations[k].image_id # z - 1

\* an all-background slice between a first slice and an annotated last one
C7_Witness ==
    /\ Encoded
    /\ Len(volume.slices) = 3
    /\ Background(volume.slices[2])
    /\ \E k \in 1..Len(coco.annotations) : coco.annotations[k].image_id = 2

\* annotation k is emitted before annotation m: earlier slice, or same slice
\* and smaller label
EmittedBefore(k, m) ==
    \/ coco.annotations[k].image_id < coco.annotations[m].image_id
    \/ /\ coco.annotations[k].image_id = coco.annotations[m].image_id
       /\ coco.annotations[k].category_id < coco.annotations[m].category_id

\* C8: image ids are the slice indices 0..S-1, annotation ids are 0..N-1 in
\* emission order (slice ascending, then label ascending).
C8_IdsSequential ==
    Encoded =>
        /\ Len(coco.images) = Len(volume.slices)
        /\ \A i \in 1..Len(coco.images) :
             coco.images[i].id = i - 1 /\ extract_slice_index(coco.images[i].file_name) = i - 1
        /\ \A k \in 1..Len(coco.annotations) : coco.annotations[k].id = k - 1
        /\ \A k \in 1..Len(coco.annotations) : \A m \in (k + 1)..Len(coco.annotations) : EmittedBefore(k, m)

\* annotations on several slices, the first one after a label of the first
\* slice that got no annotation
C8_Witness ==
    /\ Encoded
    /\ Len(coco.annotations) >= 3
    /\ PixelsOf(volume.slices[1], 1) # {}
    /\ coco.annotations[1].image_id = 0 /\ coco.annotations[1].category_id = 2
    /\ coco.annotations[3].image_id > 0

\* the annotations of slice z (1-based) and label v
AnnsFor(z, v) == {k \in 1..Len(coco.annotations) : coco.annotations[k].image_id = z - 1 /\ coco.annotations[k].category_id = v}

ExampleVolume == [h |-> 4, w |-> 4, slices |-> <<Solid(4, 4, <<1, 1, 2, 2>>, 1), EmptySlice(4, 4)>>]

\* the non-zero label values of a slice
LabelsIn(sl) == {sl[p] : p \in DOMAIN sl} \ {0}

\* the rectangles whose top left corner is pixel c
RectsFrom(c, h, w) == {<<c[1], c[2], x1, y1>> : x1 \in c[1]..(w - 1), y1 \in c[2]..(h - 1)}

\* label v fills exactly the rectangle r of slice z
FillsRect(z, v, r) == PixelsOf(volume.slices[z], v) = {p \in DOMAIN volume.slices[z] : InRect(p, r)}

\* annotation k carries the analytic box and area of rectangle r
HasBoxOf(k, r) ==
    /\ coco.annotations[k].bbox = <<r[1], r[2], r[3] - r[1] + 1, r[4] - r[2] + 1>>
    /\ coco.annotations[k].area = (r[3] - r[1] + 1) * (r[4] - r[2] + 1)
    /\ coco.annotations[k].iscrowd = 0

RectangleAnnotated(z, v, r) ==
    /\ \A k \in AnnsFor(z, v) : HasBoxOf(k, r)
    /\ Cardinality(AnnsFor(z, v)) <= 1
    /\ (r[3] > r[1] /\ r[4] > r[2]) => (Cardinality(AnnsFor(z, v)) = 1)

ExampleAnnotated ==
    /\ [i \in 1..Len(coco.images) |-> coco.images[i].id] = <<0, 1>>
    /\ Len(coco.annotations) = 1
    /\ coco.annotations[1].image_id = 0
    /\ coco.annotations[1].category_id = 1
    /\ coco.annotations[1].bbox = <<1, 1, 2, 2>>
    /\ coco.annotations[1].area = 4

\* C9: where label v fills exactly the rectangle r of a slice, an annotation of
\* (slice, v) has bbox [x0, y0, width, height] of r, the pixel count as area and
\* iscrowd 0; there is exactly one when r is at least 2x2; the 4x4x2 example
\* yields images 0 and 1 and the single annotation bbox [1,1,2,2], area 4.
C9_RectangleBBox ==
    Encoded => /\ \A z \in 1..Len(volume.slices) : \A v \in LabelsIn(volume.slices[z]) :
                     \A r \in RectsFrom(RasterMin(PixelsOf(volume.slices[z], v)), volume.h, volume.w) :
                         FillsRect(z, v, r) => RectangleAnnotated(z, v, r)
               /\ (volume = ExampleVolume) => ExampleAnnotated

\* the 4x4x2 example, encoded
C9_Witness == Encoded /\ volume = ExampleVolume /\ Len(coco.annotations) = 1

\* ---------------------------------------------------------------- decoder
\* annotation k of the document paints pixel p
Paints(doc, k, p) ==
    \E i \in 1..Len(doc.annotations[k].segmentation) :
        /\ Len(doc.annotations[k].segmentation[i]) >= 6
        /\ Covered(p, Reshape2(doc.annotations[k].segmentation[i]))

\* the positions, in document order, of the annotations of image img_id that
\* paint pixel p
Painters(doc, img_id, p) ==
    {k \in 1..Len(doc.annotations) : doc.annotations[k].image_id = img_id /\ Paints(doc, k, p)}

\* C10: a decoded pixel holds the category id of the last annotation of its image
\* that covers it, whatever the category ids are.
C10_LastWriteWins ==
    pc = "decoded" =>
        \A i \in 1..Len(coco.images) : \A p \in Pix(decoded.h, decoded.w) :
            Painters(coco, coco.images[i].id, p) # {} =>
                decoded.slices[extract_slice_index(coco.images[i].file_name) + 1][p]
                    = coco.annotations[MaxOf(Painters(coco, coco.images[i].id, p))].category_id

\* a pixel two annotations cover, the later one with the smaller category id
C10_Witness ==
    /\ pc = "decoded"
    /\ volume = NoVolume
    /\ Len(coco.annotations) = 2
    /\ coco.annotations[1].category_id = 2
    /\ coco.annotations[2].category_id = 1
    /\ Painters(coco, 0, <<1, 1>>) = {1, 2}
    /\ decoded.slices[1][<<1, 1>>] = 1

\* the slice indices the image records of the document name
SliceIndices(doc) == {extract_slice_index(doc.images[i].file_name) : i \in 1..Len(doc.images)}

\* C11: the decoded depth is the largest slice index of the image file names
\* plus one; an index no image record names is an all-zero slice; the mask of
\* an image is at the index of its own file name.
C11_DecoderDepth ==
    pc = "decoded" =>
        /\ Len(decoded.slices) = MaxOf(SliceIndices(coco)) + 1
        /\ \A z \in 1..Len(decoded.slices) : (z - 1) \notin SliceIndices(coco) => Background(decoded.slices[z])
        /\ \A i \in 1..Len(coco.images) :
             decoded.slices[extract_slice_index(coco.images[i].file_name) + 1]
                 = SliceMask(coco, coco.images[i], decoded.h, decoded.w)

\* two image records, for slice 2 and slice 0: depth 3, slice 1 zero, and the
\* annotation of the first record painted on slice 2
C11_Witness ==
    /\ pc = "decoded"
    /\ Len(coco.images) = 2
    /\ Len(decoded.slices) = 3
    /\ Background(decoded.slices[2])
    /\ ~Background(decoded.slices[3])
    /\ Background(decoded.slices[1])

\* C12: decoding a document without image records fails, and the file at the
\* output path stays as it was.
C12_EmptyImagesFail ==
    [][(coco.images = <<>> /\ pc \in {"encoded", "downloaded"} /\ pc' # pc)
          => (pc' = "decode_failed" /\ decoded' = decoded)]_vars

\* a failed decoding of annotations without images, over an earlier output file
C12_Witness == pc = "decode_failed" /\ coco.images = <<>> /\ coco.annotations # <<>> /\ decoded = StaleOutput

\* the request passed the checks of lines 816-828 and CVAT gave a token
Accepted ==
    /\ request.data
    /\ request.task_ids # <<>>
    /\ request.username # Missing /\ request.password # Missing
    /\ cvat_accepts

\* entry i of the list is the entry of the i-th task id of the request
EntriesInOrder(list) == \A i \in 1..Len(list) : list[i].task_id = request.task_ids[i]

\* C13: once the request to send_to_dataset is validated and CVAT accepts the
\* credentials, the loop has appended exactly one entry for each task id it
\* has consumed, in request order, whatever failed on the way, and the
\* response carries one entry per requested task id.
C13_OneEntryPerTask ==
    Accepted =>
        /\ Len(results) = task_index
        /\ EntriesInOrder(results)
        /\ pc = "responded" =>
             /\ response.code = 200
             /\ response.results = results
             /\ Len(response.results) = Len(request.task_ids)

C13_Witness ==
    /\ pc = "responded"
    /\ Accepted
    /\ Len(response.results) = 2
    /\ response.results[1].status = "error"
    /\ response.results[2].status = "success"
\* the request names task ids and credentials
WellFormed ==
    /\ request.data
    /\ request.task_ids # <<>>
    /\ request.username # Missing /\ request.password # Missing

\* C14 (as claimed): when CVAT refuses the credentials or the folder
\* temp_uploads/niftis does not exist, no step of send_to_dataset starts an
\* export, writes a file to cvat_annotations or creates or changes anything
\* in the dataset folder, and the response is an error response.
C14_PrerequisitesUpFront ==
    [][(WellFormed /\ (~cvat_accepts \/ ~niftis_exists)) =>
          /\ exports' = exports
          /\ persistent_dir' = persistent_dir
          /\ exists' = exists
          /\ <<imagesTr', labelsTr', dataset'>> = <<imagesTr, labelsTr, dataset>>
          /\ results' = results
          /\ pc' = "responded" => response'.code \in 400..599]_vars
\* the request to upload_tasks passed the checks of lines 1099-1112
ExportAccepted ==
    /\ request.data
    /\ request.nifti_ids # <<>>
    /\ request.cvat_username # Missing /\ request.cvat_password # Missing
    /\ cvat_accepts

\* C15 (as claimed): once CVAT accepts the credentials, the response of
\* upload_tasks comes after every nifti id of the request was processed and
\* holds one entry for each of them, in order, the failed ones included.
C15_FailuresReported ==
    (ExportAccepted /\ pc = "responded") =>
        /\ task_index = Len(request.nifti_ids)
        /\ response.code = 200
        /\ Len(response.tasks) = Len(request.nifti_ids)
        /\ \A i \in 1..Len(response.tasks) : response.tasks[i].task_name = TaskName(request.nifti_ids[i])
\* the step is a call that returned a case id
InsertedOk == Len(calls') = Len(calls) + 1 /\ calls'[Len(calls')].result = "ok"

\* the numbers an id holds: its maximal runs of digits
NumbersIn(id) == {DigitRun(id, k) : k \in {j \in 1..Len(id) : IsDigit(id[j]) /\ (j = 1 \/ ~IsDigit(id[j - 1]))}}

\* the case id and channel count the id calls for
RequiredCases(id) ==
    IF SearchLa(id) # <<>> THEN {[case |-> La \o ZFill(SearchLa(id), 3), channels |-> 1]}
    ELSE {[case |-> Brats \o <<"_">> \o ZFill(n, 3), channels |-> 4] : n \in NumbersIn(id)}

\* the folder gained or replaced exactly the named files, each with a content
\* of the given set, and kept every other file as it was
Received(before, after, names, contents) ==
    /\ DOMAIN after = DOMAIN before \cup names
    /\ \A f \in names : after[f] \in contents
    /\ \A f \in DOMAIN before \ names : after[f] = before[f]

\* C16: a successful insertion returns la_<number zero-padded to 3> for an
\* id that contains la_<digits> and BRATS_<number zero-padded to 3> for any
\* other id; imagesTr receives exactly the files <case>_0000<ending> (heart)
\* or <case>_0000 .. <case>_0003 (brain), copies of raw images, and labelsTr
\* receives <case><ending>, a copy of the corrected volume.
C16_ChannelSet ==
    [][InsertedOk =>
          \E call \in {calls'[Len(calls')]} : \E ending \in {FileEnding(dataset)} :
          \E req \in RequiredCases(call.nifti_id) :
            /\ call.base_case_id = req.case
            /\ Received(imagesTr, imagesTr', {req.case \o ChannelSuffix(ch, ending) : ch \in 0..(req.channels - 1)}, raw_images_src)
            /\ Received(labelsTr, labelsTr', {req.case \o ending}, {CorrectedFile})]_vars

C16_Witness ==
    /\ Len(calls) = 2
    /\ calls[1].result = "ok" /\ calls[1].base_case_id = Id_BRATS_100
    /\ calls[2].result = "ok" /\ calls[2].base_case_id = Case_la_003
    /\ DOMAIN imagesTr = ChannelFiles(Id_BRATS_100, 4) \cup ChannelFiles(Case_la_003, 1)
\* the case of an image file <case>_<4 digits><ending>
CaseOfImage(f, ending) == SubSeq(f, 1, Len(f) - Len(ending) - 5)

\* every case with image files has its label file, and every training
\* entry names an image file and a label file of the folders
DatasetConsistent ==
    /\ \A f \in DOMAIN imagesTr : (CaseOfImage(f, FileEnding(dataset)) \o FileEnding(dataset)) \in DOMAIN labelsTr
    /\ \A i \in 1..Len(dataset.training) :
         /\ \E f \in DOMAIN imagesTr : dataset.training[i].image = ImagesTrDir \o f
         /\ \E f \in DOMAIN labelsTr : dataset.training[i].label = LabelsTrDir \o f

\* C17: an insertion call, whether it returns or raises, takes a dataset
\* folder in which every image case has its label and every training entry
\* names existing files to a folder in which the same holds.
C17_DatasetInvariant == [][DatasetConsistent => DatasetConsistent']_vars

C17_Witness ==
    /\ calls # <<>>
    /\ LastCall.result = "FileNotFoundError"
    /\ DOMAIN imagesTr = ChannelFiles(Id_BRATS_100, 2)
    /\ DatasetConsistent
\* request r went from stage a to stage b in this step
Moved(r, a, b) == stage[r] = a /\ stage'[r] = b

Other(r) == CHOOSE q \in RequestIds : q # r

\* C18: two uploads that derive the same job id share its zip and folders:
\* the upload that saves its zip replaces whatever zip was there, and the
\* upload that prepares temp_extract_<job_id> or inference_temp_<job_id>
\* empties it, whatever the other upload had put there.
C18_NotIsolated ==
    [][\A r \in RequestIds :
          /\ Moved(r, "received", "saved") => (zip_file'.present /\ zip_file'.owner = r)
          /\ Moved(r, "saved", "extract_ready") => (temp_extract_dir'.exists /\ DOMAIN temp_extract_dir'.files = {})
          /\ Moved(r, "extract_ready", "inference_ready") => (inference_dir'.exists /\ DOMAIN inference_dir'.files = {})]_vars

\* an upload was answered with success and its file paths while the job's
\* inference folder and the converted file hold the other upload's file
C18_Witness ==
    \E r \in RequestIds :
        /\ requests[r].kind = "upload"
        /\ responses[r].code = 200
        /\ responses[r].nifti_paths = {Scan}
        /\ stage[Other(r)] \in {"copied", "cleaned", "responded"}
        /\ inference_dir.exists /\ inference_dir.files = Holding({Scan}, Other(r))
        /\ niftis_dir.files = Holding({Scan}, Other(r))

\* an upload was answered 500 because the other upload removed the zip or
\* the extraction folder it was working on
FailedByOther ==
    \E r \in RequestIds :
        /\ requests[r].kind = "upload" /\ requests[Other(r)].kind = "upload"
        /\ responses[r].code = 500
\* what a request can leave behind
Effects == <<zip_file, temp_extract_dir, inference_dir, niftis_dir, fs, subprocesses, cvat_logins, users, session>>

\* the value is an integer: a JSON integer, or a string that spells one
IsInteger(j) == j.type = "int" \/ (j.type = "str" /\ ParseInt(j.val) >= 0)

\* the requests validation is to reject
Invalid(req) ==
    \/ req.kind = "upload" /\ (~req.has_file \/ ConfigOf(req) \notin {<<"2d">>, Cfg3d})
    \/ req.kind = "run" /\ req.job_id = Missing
    \/ req.kind = "train" /\ \/ req.dataset_id.type # "int"
                             \/ req.resolution \notin {<<"2d">>, <<"3d">>, Cfg3d}
                             \/ ~IsInteger(req.folds) /\ ~(req.folds.type = "str" /\ req.folds.val = <<"all">>)
    \/ req.kind = "login" /\ (req.username = Missing \/ req.password = Missing)

\* C19 (as claimed): the handler of an invalid request (an upload without a
\* file or with a config other than 2d and 3d_fullres, a run without job_id,
\* a train-nnunet with a non-integer dataset_id, an unsupported resolution or
\* folds that are neither an integer nor 'all', a login without username or
\* password) answers 4xx and leaves the zip, the folders, the subprocesses,
\* the CVAT calls, the users collection and the session as they were.
C19_RejectedNoEffect ==
    [][\A r \in RequestIds :
          (stage[r] = "received" /\ stage'[r] # "received" /\ Invalid(requests[r])) =>
              /\ responses'[r].code \in 400..499
              /\ Effects' = Effects]_vars

\* the run request names a job and no inference folder exists for it
NoInferenceDir(req) ==
    /\ req.kind = "run"
    /\ req.job_id # Missing /\ req.config # Missing
    /\ req.inference_dir = Missing \/ ~DirExists(req.inference_dir)
    /\ ~DirExists(InferenceTemp(req.job_id))

\* C20 (as claimed): handle_inference for a job without inference folder
\* answers not-found with the path temp_uploads/inference_temp_<job_id> in
\* the message, starts no subprocess and creates nothing under temp_results.
C20_NotFoundNamesPath ==
    [][\A r \in RequestIds :
          (stage[r] = "received" /\ stage'[r] # "received" /\ NoInferenceDir(requests[r])) =>
              /\ responses'[r].code = 404
              /\ Contains(responses'[r].error, InferenceTemp(requests[r].job_id))
              /\ subprocesses' = subprocesses
              /\ fs' = fs]_vars

\* the step is the handler of run request r, and the inference command was
\* started in it and exited non-zero
CommandFailed(r) ==
    /\ requests[r].kind = "run"
    /\ stage[r] = "received" /\ stage'[r] # "received"
    /\ Len(subprocesses') > Len(subprocesses)
    /\ subprocesses'[Len(subprocesses')].returncode # 0

\* the files of the temp_results folders niftis and pngs
Published(paths) == {p \in paths : p[1] \in {"temp_results/niftis/", "temp_results/pngs/"}}

\* C21: when the inference command exits non-zero, handle_inference answers
\* 500 with the command's stderr text in the error, the folder
\* temp_results/temp_inference_<job_id> is gone, no result file is added under
\* temp_results/niftis or temp_results/pngs, and the command ran once.
C21_FailedInference ==
    [][\A r \in RequestIds :
          CommandFailed(r) =>
              /\ responses'[r].code = 500
              /\ Contains(responses'[r].error, Stderr)
              /\ TempInference(requests[r].job_id) \notin fs'
              /\ Published(fs') = Published(fs)
              /\ Len(subprocesses') = Len(subprocesses) + 1]_vars

\* a run request whose command exited non-zero has been answered
C21_Witness ==
    \E r \in RequestIds :
        /\ requests[r].kind = "run"
        /\ stage[r] = "responded"
        /\ responses[r].code = 500
        /\ Len(subprocesses) = 1 /\ subprocesses[1] = Started("nnUNetv2_predict", 1)
        /\ ResultDirs \subseteq fs

\* CVAT answered 200 to a login call of client r
AcceptedLogin(r) == \E i \in 1..Len(cvat_logins) : cvat_logins[i].client = r /\ cvat_logins[i].status_code = 200

\* the step is the login call of client r to CVAT, and CVAT refused
RefusedLogin(r) ==
    /\ Len(cvat_logins') = Len(cvat_logins) + 1
    /\ cvat_logins'[Len(cvat_logins')].client = r
    /\ cvat_logins'[Len(cvat_logins')].status_code # 200

\* the step answers a user request of client r
AnswersGetUser(r) == requests[r].kind = "user" /\ stage[r] = "received" /\ stage'[r] = "responded"

\* C22: a session carries a username, and a user request is answered
\* authenticated, only if CVAT accepted the credentials of a login of that
\* client; a login that CVAT refuses is answered at once and leaves the users
\* collection and every session as they were; a logout leaves the session
\* without username, and a user request of a session without username is
\* answered 401.
C22_LoginDelegated ==
    [][\A r \in RequestIds :
          /\ session'[r].username # Missing => AcceptedLogin(r)'
          /\ (AnswersGetUser(r) /\ responses'[r].code = 200) => (AcceptedLogin(r) /\ session[r].username # Missing)
          /\ RefusedLogin(r) => (stage'[r] = "responded" /\ responses'[r].code >= 400 /\ users' = users /\ session' = session)
          /\ (requests[r].kind = "logout" /\ stage[r] = "received" /\ stage'[r] = "responded")
                => session'[r].username = Missing
          /\ (AnswersGetUser(r) /\ session[r].username = Missing) => responses'[r].code = 401]_vars

\* a client logged in, logged out and was then refused by CVAT: its session
\* carries no username although an earlier login of it was accepted
C22_Witness ==
    \E r \in RequestIds :
        /\ AcceptedLogin(r)
        /\ cvat_logins[Len(cvat_logins)].client = r /\ cvat_logins[Len(cvat_logins)].status_code # 200
        /\ session[r].username = Missing
        /\ requests[r].kind = "user" /\ stage[r] = "responded" /\ responses[r].code = 401

\* the login calls client r made to CVAT
LoginsOf(r) == SelectSeq(cvat_logins, LAMBDA l : l.client = r)

\* the login request of client r has been answered, and CVAT had accepted
\* its credentials
AcceptedAndAnswered(r) ==
    /\ requests[r].kind = "login" /\ stage[r] = "responded"
    /\ requests[r].username # Missing /\ requests[r].password # Missing
    /\ LoginsOf(r) # <<>> /\ LoginsOf(r)[Len(LoginsOf(r))].status_code = 200

\* the documents of the users collection with that username
DocsOf(username) == {i \in 1..Len(users) : users[i].username = username}

\* C30 (as claimed): however the logins of the clients interleave, a login
\* whose credentials CVAT accepted is answered 200, and the users collection
\* then holds exactly one document of its username.
C30_ConcurrentFirstLogin ==
    \A r \in RequestIds :
        AcceptedAndAnswered(r) =>
            /\ responses[r].code = 200
            /\ Cardinality(DocsOf(requests[r].username)) = 1

\* the step is the handler of upload request r
AnswersUpload(r) == requests[r].kind = "upload" /\ stage[r] = "received" /\ stage'[r] = "responded"

\* the volumes a conversion of PNG folders writes to temp_uploads/niftis
\* for the job: of the modality folders, of the standalone folders
FromModality(job_id, folders) ==
    {InNiftis(<<"b", "r", "a", "t", "s", "_">> \o job_id \o <<"_">> \o ModalityCode(d) \o NiiGz) : d \in folders}

FromStandalone(job_id, folders) ==
    {InNiftis(job_id \o <<"_">> \o d \o <<"_", "0", "0", "0", "0">> \o NiiGz) : d \in folders}

\* the archive holds no NIfTI file and no folder with an image in it
NoVolumeIn(archive) ==
    all_nifti_files(archive) = {} /\ png_folders(archive) = {} /\ other_image_folders(archive) = {}

\* the sources of volumes process_upload is to choose among, for the archive
\* and the job id of request r
Precedence(r, archive, job_id) ==
    /\ all_nifti_files(archive) # {} =>
          (fs' \ fs) \cap (FromModality(job_id, Folders(archive)) \cup FromStandalone(job_id, Folders(archive))) = {}
    /\ (all_nifti_files(archive) = {} /\ find_modality_folders(archive) # {}) =>
          /\ FromModality(job_id, find_modality_folders(archive)) \subseteq fs'
          /\ (fs' \ fs) \cap FromStandalone(job_id, Folders(archive)) = {}
    /\ (all_nifti_files(archive) = {} /\ find_modality_folders(archive) = {}) =>
          FromStandalone(job_id, png_folders(archive)) \subseteq fs'
    /\ NoVolumeIn(archive) =>
          /\ responses'[r] = [code |-> 400, error |-> <<"ValueError">>]
          /\ TempExtract(job_id) \notin fs'
          /\ ZipPath(NameWithoutExt(requests[r].filename)) \notin fs'
          /\ InferenceTemp(job_id) \notin fs'

\* C23 (as claimed): process_upload uses the NIfTI files of the archive and
\* converts no PNG folder when there is a NIfTI file; otherwise it converts
\* each folder whose name ends in four digits to brats_<job_id>_<code>.nii.gz
\* and no standalone folder; otherwise it converts the standalone PNG
\* folders; and for an archive without any volume it raises ValueError and
\* leaves no temp_extract folder, no zip and no inference folder.
C23_OneSource ==
    [][\A r \in RequestIds :
          AnswersUpload(r) =>
              Precedence(r, requests[r].files, ProcessJobId(ZipPath(NameWithoutExt(requests[r].filename))))]_vars

\* run request r was answered that the job has no inference folder
NotFoundAnswer(r) ==
    /\ requests[r].kind = "run" /\ stage[r] = "responded"
    /\ responses[r].code >= 400
    /\ StartsWith(responses[r].error, <<"Inference directory not found for job ">>)

\* C27 (as claimed): the job id an upload is answered with is the one
\* process_upload names the inference folder with, whatever the name of the
\* uploaded file, so the run request that carries only that job id finds
\* the folder.
C27_JobIdAgrees ==
    \A u \in RequestIds :
        (requests[u].kind = "upload" /\ stage[u] = "responded" /\ responses[u].code = 200) =>
            /\ InferenceTemp(responses[u].job_id) = responses[u].inference_dir
            /\ \A r \in RequestIds : ~NotFoundAnswer(r)

\* the dataset a task is inserted into when it is the only task of the
\* request: lines 877-891 with dataset_type as the request gave it
DatasetAlone(info) ==
    IF SearchLa(info.nifti_id) # <<>> THEN Heart
    ELSE IF request.dataset = NoDatasetType THEN info.dataset_type ELSE request.dataset

\* the case id it is given then
CaseIdAlone(info) == BaseCaseId(FormatHeartId(DatasetAlone(info), info))

\* C24 (as claimed): a task of a batch is inserted into the dataset, and
\* under the case id, that its own task record and the request's dataset
\* field give, whichever tasks were processed before it.
C24_IndependentOfEarlierTasks ==
    \A i \in 1..Len(results) :
        results[i].status = "success" =>
            /\ results[i].dataset_type = DatasetAlone(corrected_tasks[ParseInt(results[i].task_id)])
            /\ results[i].new_case_id = CaseIdAlone(corrected_tasks[ParseInt(results[i].task_id)])

\* the case a training entry belongs to: its image is ./imagesTr/<case>_0000<ending>
CaseOfEntry(entry, ending) == CaseOfImage(SubSeq(entry.image, Len(ImagesTrDir) + 1, Len(entry.image)), ending)

\* C25 (as claimed): a successful insertion of case X keeps the training
\* entry of every other case: an entry is gone from the list only if it was
\* the entry of case X.
C25_OtherCasesKept ==
    [][InsertedOk =>
          \A i \in 1..Len(dataset.training) :
              CaseOfEntry(dataset.training[i], FileEnding(dataset)) # calls'[Len(calls')].base_case_id =>
                  \E j \in 1..Len(dataset'.training) : dataset'.training[j] = dataset.training[i]]_vars

\* the channel files process_upload wrote for the upload a result id names:
\* brats_<job_id>_<code> for the job id the id starts with
UploadChannelFiles(nifti_id, ending) ==
    [ch \in 0..(BratsChannels - 1) |-> BratsLower \o JobIdOf(nifti_id) \o ChannelSuffix(ch, ending)]

\* every channel of the case is found by one of the case-number patterns
PatternsFindAll(nifti_id, ending) ==
    \A ch \in 0..(BratsChannels - 1) : FoundFiles(raw_images_src, PossibleFilenames(nifti_id, ch, ending)) # {}

\* C26: a brain case whose upload has its four channel files in the raw folder
\* gets the files of that upload in imagesTr, whatever other complete channel
\* sets the folder lists; and when brats_<uuid>_0000 files exist without any
\* complete set, a case whose channels the case-number patterns all find is
\* not failed with FileNotFoundError.
C26_ChannelsOfTheCase ==
    [][\A nifti_id \in NiftiIds : \A ending \in {FileEnding(dataset)} :
         (/\ Len(calls') = Len(calls) + 1
          /\ calls'[Len(calls')].nifti_id = nifti_id
          /\ ~IsHeart(nifti_id)
          /\ exists = Paths
          /\ CaseNumber(nifti_id) # <<>>)
         => /\ (/\ calls'[Len(calls')].result = "ok"
                /\ \A ch \in 0..(BratsChannels - 1) : UploadChannelFiles(nifti_id, ending)[ch] \in raw_images_src)
               => \A ch \in 0..(BratsChannels - 1) :
                    imagesTr'[BaseCaseId(nifti_id) \o ChannelSuffix(ch, ending)] = UploadChannelFiles(nifti_id, ending)[ch]
            /\ (/\ UuidMatches(raw_images_src, ending) # {}
                /\ CompleteUuids(raw_images_src, ending, BratsChannels) = {}
                /\ PatternsFindAll(nifti_id, ending))
               => calls'[Len(calls')].result # "FileNotFoundError"]_vars

\* the answer the pass of the loop just taken got from the status endpoint
Answered == export_rq'.answers[Len(export_rq'.answers)]

\* C28: every pass of the polling loop that meets a terminal condition ends the
\* loop: a non-200 answer raises, the status "finished" leaves the loop for the
\* download, and the status "failed" raises instead of polling again.
C28_PollingTerminates ==
    [][(pc = "polling" /\ Len(export_rq'.answers) = Len(export_rq.answers) + 1)
       => /\ Answered.status_code # 200 => pc' = "raised"
          /\ (Answered.status_code = 200 /\ Answered.status = "finished") => pc' = "download"
          /\ (Answered.status_code = 200 /\ Answered.status = "failed") => pc' = "raised"]_vars

\* the file corrected_tasks/<task_id> - <name>.json exists
HasTaskRecord(task_id) == task_id \in DOMAIN corrected_tasks /\ corrected_tasks[task_id].found

\* the response is a failure answer given while the task was being uploaded
ReportedFailed(task_id) == response.code # 200 /\ task_id = Len(cvat_tasks)

\* C29: a task record exists only for a CVAT task that was created, got its
\* images and had its annotations accepted; every task the response lists has
\* a record; and once the endpoint has answered, every CVAT task it created
\* has a record or is reported as failed by the response.
C29_RecordsFollowCvat ==
    /\ \A task_id \in DOMAIN corrected_tasks :
         HasTaskRecord(task_id) =>
            /\ task_id \in DOMAIN cvat_tasks
            /\ cvat_tasks[task_id].data /\ cvat_tasks[task_id].annotations
            /\ corrected_tasks[task_id].task_name = cvat_tasks[task_id].name
    /\ (ExportAccepted /\ pc = "responded") =>
         /\ \A i \in 1..Len(response.tasks) : HasTaskRecord(response.tasks[i].task_id)
         /\ \A task_id \in DOMAIN cvat_tasks : HasTaskRecord(task_id) \/ ReportedFailed(task_id)

====
